---- MODULE Spec2Model ----
(***************************************************************************)
(* MCP gateway composition and lifecycle: the McpGatewayCompositor's       *)
(* position bookkeeping over the aggregate's provider list, the gateway    *)
(* server CRUD handlers over the resource store, and the lifecycle hooks.  *)
(***************************************************************************)
EXTENDS Integers, Sequences, FiniteSets, TLC

\* ------------------------------------------------------------------ bounds

\* Number of distinct resource names in play.
NumNames == 3
\* Largest number of providers the aggregate holds before the first mount.
MaxBase == 1

\* Number of resource names the lifecycle hooks and the API handlers work on.
NumSysNames == 2
\* Largest number of on_server_deleted invocations suspended at one time.
MaxInFlight == 1

\* How many providers may be missing from the aggregate, by removals the
\* Compositor has not come across, at a time.
MaxUnnoticed == 1
MaxPages == 3
MaxClock == 460

\* Number of callers that invoke coroutines concurrently.
NumCallers == 2

NameList == <<"github", "filesystem", "docker-server", "no-url", "no-cmd", "unknown">>
Names == {NameList[i] : i \in 1..NumNames}
SysNames == {NameList[i] : i \in 1..NumSysNames}

\* ------------------------------------------------------------ Python values

\* Python's None, and the outcome of a call that returns normally.
None == "None"
NoError == "none"

\* Python truthiness of an optional string: `not x` holds of None and of "".
Falsy(x) == x = None \/ x = ""

TransportTypes == {"streamable_http", "sse", "stdio", "unsupported_transport"}
Urls == {None, "", "http://mcp:8000/mcp"}
Commands == {None, "npx"}

\* The McpServerResource values handed to the Compositor: every transport
\* type, enabled or not, with a url, a command, or neither (the empty url and
\* the stray command are tried on streamable_http and stdio).
Resources ==
    {r \in [name : Names, transport_type : TransportTypes, url : Urls,
            command : Commands, is_enabled : BOOLEAN] :
        /\ r.url = None \/ r.command = None
        /\ r.transport_type \in {"sse", "unsupported_transport"} =>
              r.url # "" /\ r.command = None}

\* ------------------------------------------------------------------- state

VARIABLES
    providers,      \* the aggregate's ordered provider list (self._server.providers)
    mounts,         \* self._mounts: name -> _MountEntry
    initial_count,  \* len(providers) when the Compositor was constructed
    store,          \* the resource store: name -> McpServerResource
    containers,     \* names whose container the container manager has running
    inflight,       \* slot -> the on_server_deleted invocation suspended there
    finished,       \* the hook invocation that has just completed, until it returns
    pool,           \* the connection pool: the names with a live pooled connection
    checked,        \* the last health-checker call: what it called and returned
    mode,           \* the setting of the run; it never changes (see the Modes)
    last,           \* the last Compositor call: operation, name, exception, log line
    trail,          \* the run of consecutive calls on one name, with the state before it
    callers,        \* caller -> the coroutine it has invoked and where that one is
    serial,         \* what the calls yield when made one at a time, in the order they start
    attempts,       \* name -> the connection attempts made for it, and whether one is open
    paging,         \* the search_all call: its locals, the requests sent, the pages received
    clock,          \* what time.time() returns, in seconds
    _event_dedup_cache,  \* the Slack webhook's cache: event_id -> time of receipt
    slack,          \* the Slack requests seen: windows opened, events handed on, last outcome
    callback_registry,   \* the CallbackRegistry: conversation id -> CallbackRegistration
    callback        \* the deliveries made for each registration; the execute call just made

compositor_vars == <<providers, mounts, initial_count>>
observer_vars == <<mode, last, trail>>
concurrency_vars == <<callers, serial, attempts>>
registry_vars == <<paging>>
slack_vars == <<clock, _event_dedup_cache, slack>>
callback_vars == <<callback_registry, callback>>
integration_vars == <<registry_vars, slack_vars, callback_vars>>
gateway_vars == <<providers, mounts, initial_count, store, containers, inflight,
                  finished, pool, checked, mode, last, trail, callers, serial,
                  attempts>>
system_vars == <<store, containers, inflight, finished, pool, checked,
                 callers, serial, attempts, integration_vars>>
vars == <<providers, mounts, initial_count, store, containers, inflight, finished,
          pool, checked, mode, last, trail, callers, serial, attempts, paging,
          clock, _event_dedup_cache, slack, callback_registry, callback>>

\* The settings: "compositor", one client calling the Compositor, with the two
\* call observers recording; "lifecycle", the hooks awaited one at a time, on
\* collaborators that may fail; "system", the API handlers and the hooks on
\* the stored resources, awaited one at a time, nothing failing; "health",
\* the health checker over a store, a pool and a container backend that
\* change; "api", the API handlers alone.
Modes == {"compositor", "lifecycle", "system", "health", "api", "desync",
          "concurrent", "pool", "overlap", "registry", "slack", "callback"}

watching == mode \in {"compositor", "desync"}

\* The runs of calls are followed for the Compositor alone.
following == mode = "compositor"

\* ---------------------------------------------------------------- helpers

EmptyMap == [n \in {} |-> None]

\* list.pop(idx) for a 0-based idx that is in range.
Pop(P, idx) == SubSeq(P, 1, idx) \o SubSeq(P, idx + 2, Len(P))

\* A provider that was on the aggregate before the Compositor touched it.
BaseProvider == [namespace |-> "", enabled |-> TRUE]

\* What FastMCP.mount(proxy, namespace=name) appends to the provider list.
MountedProvider(name) == [namespace |-> name, enabled |-> TRUE]

_MountEntry(name, provider_index) ==
    [name |-> name, provider_index |-> provider_index, disabled |-> FALSE]

mounted_names == DOMAIN mounts

is_disabled(name) == IF name \in DOMAIN mounts THEN mounts[name].disabled ELSE FALSE

\* -------------------------------------------------------------- Compositor

\* A call's outcome: the new provider list and mount table, the exception
\* raised (NoError when it returns) and the line it logs ("" when none).
Outcome(P, M, raised, log) ==
    [providers |-> P, mounts |-> M, raised |-> raised, log |-> log]

\* Variant: the missing-field tests compare with None only, so an empty url or
\* command passes for a valid config.
create_proxy_none_only(resource) ==
    IF resource.transport_type \in {"streamable_http", "sse"}
    THEN IF resource.url = None
         THEN [proxy |-> None, log |-> "has no URL - skipping"]
         ELSE [proxy |-> "proxy", log |-> ""]
    ELSE IF resource.transport_type = "stdio"
    THEN IF resource.command = None
         THEN [proxy |-> None, log |-> "has no command - skipping"]
         ELSE [proxy |-> "proxy", log |-> ""]
    ELSE [proxy |-> None, log |-> "Unsupported transport type - skipping"]

\* _create_proxy: a proxy for a resource with a valid config for its type,
\* else None with the warning logged.
_create_proxy(resource) ==
    IF resource.transport_type \in {"streamable_http", "sse"}
    THEN IF Falsy(resource.url)
         THEN [proxy |-> None, log |-> "has no URL - skipping"]
         ELSE [proxy |-> "proxy", log |-> ""]
    ELSE IF resource.transport_type = "stdio"
    THEN IF Falsy(resource.command)
         THEN [proxy |-> None, log |-> "has no command - skipping"]
         ELSE [proxy |-> "proxy", log |-> ""]
    ELSE [proxy |-> None, log |-> "Unsupported transport type - skipping"]

\* What a successful mount does: append the proxy, track it at the last index.
\* Variant: the position recorded is the new length, not the new length - 1.
Mounted_records_length(P, M, name) ==
    LET P2 == Append(P, MountedProvider(name))
        idx == Len(P2)
    IN  Outcome(P2,
                [n \in DOMAIN M \cup {name} |->
                   IF n = name THEN _MountEntry(name, idx) ELSE M[n]],
                NoError, "Mounted MCP server")

\* Variant: the proxy is put in front of the list and recorded at 0.
Mounted_at_front(P, M, name) ==
    Outcome(<<MountedProvider(name)>> \o P,
            [n \in DOMAIN M \cup {name} |->
               IF n = name THEN _MountEntry(name, 0) ELSE M[n]],
            NoError, "Mounted MCP server")

Mounted(P, M, name) ==
    LET P2 == Append(P, MountedProvider(name))
        idx == Len(P2) - 1
    IN  Outcome(P2,
                [n \in DOMAIN M \cup {name} |->
                   IF n = name THEN _MountEntry(name, idx) ELSE M[n]],
                NoError, "Mounted MCP server")

\* Variant: no duplicate check, a tracked name is mounted again.
mount_server_no_duplicate_check(P, M, resource) ==
    IF ~resource.is_enabled
    THEN Outcome(P, M, NoError, "Skipping disabled resource")
    ELSE IF _create_proxy(resource).proxy = None
    THEN Outcome(P, M, NoError, _create_proxy(resource).log)
    ELSE Mounted(P, M, resource.name)

\* Variant: no is_enabled check, a disabled resource is mounted.
mount_server_ignores_is_enabled(P, M, resource) ==
    IF resource.name \in DOMAIN M
    THEN Outcome(P, M, "ValueError", "")
    ELSE IF _create_proxy(resource).proxy = None
    THEN Outcome(P, M, NoError, _create_proxy(resource).log)
    ELSE Mounted(P, M, resource.name)

\* Variant: the duplicate check comes before the is_enabled check.
mount_server_duplicate_check_first(P, M, resource) ==
    IF resource.name \in DOMAIN M
    THEN Outcome(P, M, "ValueError", "")
    ELSE IF ~resource.is_enabled
    THEN Outcome(P, M, NoError, "Skipping disabled resource")
    ELSE LET made == _create_proxy(resource)
         IN  IF made.proxy = None
             THEN Outcome(P, M, NoError, made.log)
             ELSE Mounted(P, M, resource.name)

mount_server(P, M, resource) ==
    IF ~resource.is_enabled
    THEN Outcome(P, M, NoError, "Skipping disabled resource")
    ELSE IF resource.name \in DOMAIN M
    THEN Outcome(P, M, "ValueError", "")
    ELSE LET made == _create_proxy(resource)
         IN  IF made.proxy = None
             THEN Outcome(P, M, NoError, made.log)
             ELSE Mounted(P, M, resource.name)

\* Variant: the provider is popped but the remaining entries are not re-indexed.
unmount_server_no_reindex(P, M, name) ==
    IF name \notin DOMAIN M
    THEN Outcome(P, M, NoError, "")
    ELSE LET idx == M[name].provider_index
             rest == DOMAIN M \ {name}
         IN  IF idx < Len(P)
             THEN Outcome(Pop(P, idx), [n \in rest |-> M[n]], NoError,
                          "Unmounted MCP server")
             ELSE Outcome(P, [n \in rest |-> M[n]], NoError,
                          "Provider index out of range")

\* Variant: the entry is untracked but its provider stays on the aggregate.
unmount_server_keeps_provider(P, M, name) ==
    IF name \notin DOMAIN M
    THEN Outcome(P, M, NoError, "")
    ELSE Outcome(P, [n \in DOMAIN M \ {name} |-> M[n]], NoError,
                 "Unmounted MCP server")

\* Variant: the entry is read with get() instead of pop(), so it stays tracked.
unmount_server_keeps_entry(P, M, name) ==
    IF name \notin DOMAIN M
    THEN Outcome(P, M, NoError, "")
    ELSE LET idx == M[name].provider_index
         IN  IF idx < Len(P)
             THEN Outcome(Pop(P, idx),
                          [n \in DOMAIN M |->
                             IF M[n].provider_index > idx
                             THEN [M[n] EXCEPT !.provider_index = @ - 1]
                             ELSE M[n]],
                          NoError, "Unmounted MCP server")
             ELSE Outcome(P, M, NoError, "Provider index out of range")

\* Variant: an untracked name is given the index -1, and providers.pop(-1)
\* takes the last provider off the aggregate.
unmount_server_untracked_pops_last(P, M, name) ==
    IF name \notin DOMAIN M
    THEN Outcome(IF P = <<>> THEN P ELSE Pop(P, Len(P) - 1), M, NoError,
                 "Unmounted MCP server")
    ELSE LET idx == M[name].provider_index
             rest == DOMAIN M \ {name}
         IN  IF idx < Len(P)
             THEN Outcome(Pop(P, idx),
                          [n \in rest |->
                             IF M[n].provider_index > idx
                             THEN [M[n] EXCEPT !.provider_index = @ - 1]
                             ELSE M[n]],
                          NoError, "Unmounted MCP server")
             ELSE Outcome(P, [n \in rest |-> M[n]], NoError,
                          "Provider index out of range")

\* Variant: a stale position is clamped to the end of the list, so the last
\* provider is popped and the entries are re-indexed from there.
unmount_server_clamps_stale(P, M, name) ==
    IF name \notin DOMAIN M
    THEN Outcome(P, M, NoError, "")
    ELSE LET idx == IF M[name].provider_index < Len(P) \/ Len(P) = 0
                    THEN M[name].provider_index ELSE Len(P) - 1
             rest == DOMAIN M \ {name}
         IN  IF idx < Len(P)
             THEN Outcome(Pop(P, idx),
                          [n \in rest |->
                             IF M[n].provider_index > idx
                             THEN [M[n] EXCEPT !.provider_index = @ - 1]
                             ELSE M[n]],
                          NoError, "Unmounted MCP server")
             ELSE Outcome(P, [n \in rest |-> M[n]], NoError,
                          "Provider index out of range")

\* Variant: the entry is popped without a default, so an untracked name
\* raises KeyError.
unmount_server_pop_no_default(P, M, name) ==
    IF name \notin DOMAIN M
    THEN Outcome(P, M, "KeyError", "")
    ELSE LET idx == M[name].provider_index
             rest == DOMAIN M \ {name}
         IN  IF idx < Len(P)
             THEN Outcome(Pop(P, idx),
                          [n \in rest |->
                             IF M[n].provider_index > idx
                             THEN [M[n] EXCEPT !.provider_index = @ - 1]
                             ELSE M[n]],
                          NoError, "Unmounted MCP server")
             ELSE Outcome(P, [n \in rest |-> M[n]], NoError,
                          "Provider index out of range")

\* Variant: every remaining entry is re-indexed, the ones in front of the
\* removed provider included.
unmount_server_shifts_all(P, M, name) ==
    IF name \notin DOMAIN M
    THEN Outcome(P, M, NoError, "")
    ELSE LET idx == M[name].provider_index
             rest == DOMAIN M \ {name}
         IN  IF idx < Len(P)
             THEN Outcome(Pop(P, idx),
                          [n \in rest |->
                             IF M[n].provider_index > 0
                             THEN [M[n] EXCEPT !.provider_index = @ - 1]
                             ELSE M[n]],
                          NoError, "Unmounted MCP server")
             ELSE Outcome(P, [n \in rest |-> M[n]], NoError,
                          "Provider index out of range")

unmount_server(P, M, name) ==
    IF name \notin DOMAIN M
    THEN Outcome(P, M, NoError, "")
    ELSE LET idx == M[name].provider_index
             rest == DOMAIN M \ {name}
         IN  IF idx < Len(P)
             THEN Outcome(Pop(P, idx),
                          [n \in rest |->
                             IF M[n].provider_index > idx
                             THEN [M[n] EXCEPT !.provider_index = @ - 1]
                             ELSE M[n]],
                          NoError, "Unmounted MCP server")
             ELSE Outcome(P, [n \in rest |-> M[n]], NoError,
                          "Provider index out of range")

\* Variant: an untracked name gets an entry (setdefault instead of get).
disable_server_tracks_untracked(P, M, name) ==
    LET M1 == [n \in DOMAIN M \cup {name} |->
                 IF n \in DOMAIN M THEN M[n] ELSE _MountEntry(name, Len(P))]
        idx == M1[name].provider_index
    IN  IF idx < Len(P)
        THEN Outcome([P EXCEPT ![idx + 1].enabled = FALSE],
                     [M1 EXCEPT ![name].disabled = TRUE],
                     NoError, "Disabled MCP server")
        ELSE Outcome(P, [M1 EXCEPT ![name].disabled = TRUE], NoError, "")

\* Variant: the server is hidden by taking its provider off the list.
disable_server_by_removal(P, M, name) ==
    IF name \notin DOMAIN M
    THEN Outcome(P, M, NoError, "")
    ELSE LET idx == M[name].provider_index
         IN  IF idx < Len(P)
             THEN Outcome(Pop(P, idx),
                          [M EXCEPT ![name].disabled = TRUE],
                          NoError, "Disabled MCP server")
             ELSE Outcome(P, M, NoError, "")

disable_server(P, M, name) ==
    IF name \notin DOMAIN M
    THEN Outcome(P, M, NoError, "")
    ELSE LET idx == M[name].provider_index
         IN  IF idx < Len(P)
             THEN Outcome([P EXCEPT ![idx + 1].enabled = FALSE],
                          [M EXCEPT ![name].disabled = TRUE],
                          NoError, "Disabled MCP server")
             ELSE Outcome(P, M, NoError, "")

\* Variant: the provider is enabled but the entry's flag is not reset.
enable_server_keeps_flag(P, M, name) ==
    IF name \notin DOMAIN M
    THEN Outcome(P, M, NoError, "")
    ELSE LET idx == M[name].provider_index
         IN  IF idx < Len(P)
             THEN Outcome([P EXCEPT ![idx + 1].enabled = TRUE], M,
                          NoError, "Enabled MCP server")
             ELSE Outcome(P, M, NoError, "")

enable_server(P, M, name) ==
    IF name \notin DOMAIN M
    THEN Outcome(P, M, NoError, "")
    ELSE LET idx == M[name].provider_index
         IN  IF idx < Len(P)
             THEN Outcome([P EXCEPT ![idx + 1].enabled = TRUE],
                          [M EXCEPT ![name].disabled = FALSE],
                          NoError, "Enabled MCP server")
             ELSE Outcome(P, M, NoError, "")

\* -------------------------------------------------------------- observers

Snapshot == [providers |-> providers, mounts |-> mounts]

NoTrail == [pat |-> "", name |-> None, snap |-> [providers |-> <<>>, mounts |-> EmptyMap]]

SkipWarnings ==
    {"has no URL - skipping", "has no command - skipping",
     "Unsupported transport type - skipping"}

\* The runs of calls followed: mount n, unmount n, mount n (M, MU, MUM);
\* disable n, enable n (D, DE); disable n, unmount n, mount n (D, DU, DUM);
\* a mount skipped with a warning, then a mount that succeeds (S, SM).
\* op is the call just made on `name` and log the line it logged; acted says
\* whether it took effect on a tracked (for mount: newly tracked) name.
TrailSteps(op, name, log, acted) ==
    LET same == trail.name = name
        start(p) == [pat |-> p, name |-> name, snap |-> Snapshot]
        go(p) == [trail EXCEPT !.pat = p]
    IN  IF op = "mount_server" /\ log \in SkipWarnings THEN {start("S")}
        ELSE IF ~acted THEN {NoTrail}
        ELSE IF op = "mount_server"
        THEN {start("M")}
             \cup (IF same /\ trail.pat = "MU" THEN {go("MUM")} ELSE {})
             \cup (IF same /\ trail.pat = "DU" THEN {go("DUM")} ELSE {})
             \cup (IF trail.pat = "S" THEN {go("SM")} ELSE {})
        ELSE IF op = "unmount_server"
        THEN IF same /\ trail.pat = "M" THEN {go("MU")}
             ELSE IF same /\ trail.pat = "D" THEN {go("DU")}
             ELSE {NoTrail}
        ELSE IF op = "disable_server"
        THEN {start("D")}
        ELSE IF same /\ trail.pat = "D" THEN {go("DE")}
        ELSE {NoTrail}

\* ----------------------------------------------------------------- actions

\* The record of a call: shifted says whether it changed the recorded
\* position of an entry that stays tracked.
Called(op, name, r) ==
    [op |-> op, name |-> name, raised |-> r.raised, log |-> r.log,
     shifted |-> \E n \in DOMAIN mounts \cap DOMAIN r.mounts :
                    r.mounts[n].provider_index # mounts[n].provider_index]

NoCall == [op |-> "init", name |-> None, raised |-> NoError, log |-> "", shifted |-> FALSE]

\* A Compositor call with outcome r takes effect; the observers record it.
CompositorCall(op, name, r, acted) ==
    /\ providers' = r.providers
    /\ mounts' = r.mounts
    /\ last' = IF watching THEN Called(op, name, r) ELSE last
    /\ trail' \in IF following THEN TrailSteps(op, name, r.log, acted) ELSE {trail}
    /\ UNCHANGED <<initial_count, mode>>

CompositorInit ==
    /\ initial_count \in 0..MaxBase
    /\ providers = [i \in 1..initial_count |-> BaseProvider]
    /\ mounts = EmptyMap
    /\ last = NoCall
    /\ trail = NoTrail

CallerIds == 1..NumCallers

\* A caller's coroutine: the operation and its argument, where it is ("idle":
\* none invoked; "called": scheduled, not yet run; "suspended": at an await
\* inside the body) and what it read before it suspended.
Coroutine(op, arg, pc, seen) == [op |-> op, arg |-> arg, pc |-> pc, seen |-> seen]

Idle == Coroutine("", None, "idle", 0)

\* The attempts to connect to one name: how many were made, whether one is
\* open, the attempt that made the pooled connection (0 when none) and how
\* many pooled connections of the name were evicted.
NoAttempt == [made |-> 0, open |-> FALSE, live |-> 0, gone |-> 0]

\* A lifecycle hook invocation: the hook, its arguments (name, whether a
\* container manager was passed, whether the resource is docker-backed), the
\* index of the step it is at, the calls it made on its collaborators so far
\* and the exception it raised itself.
Invocation(hook, name, manager, docker, pc, calls) ==
    [hook |-> hook, name |-> name, manager |-> manager, docker |-> docker,
     pc |-> pc, calls |-> calls, raised |-> NoError]

NoInvocation == Invocation("", None, FALSE, FALSE, 0, <<>>)

\* No health-checker call made yet.
NoCheck == [op |-> ""]

\* The event ids Slack sends, and no Slack request received yet.
EventIds == {"Ev_DEDUP", "Ev_OTHER"}

NoSlack ==
    [window |-> [id \in EventIds |-> -1], handed |-> [id \in EventIds |-> <<>>],
     last |-> [at |-> -1]]

\* The conversations, and no IntegrationCallback run yet.
ContextIds == {"ctx-fire", "ctx-gh-deliver"}

NoCallback == [delivered |-> [id \in ContextIds |-> 0], last |-> [number |-> -1]]

\* No search_all call has been made.
NoSearch ==
    [pc |-> "idle", query |-> "", max_pages |-> 0, i |-> 0, cursor |-> None,
     results |-> <<>>, requests |-> <<>>, fetched |-> <<>>]

SystemInit ==
    /\ store = EmptyMap
    /\ containers = {}
    /\ pool = {}
    /\ checked = NoCheck
    /\ inflight = [slot \in 1..MaxInFlight |-> NoInvocation]
    /\ finished = NoInvocation
    /\ callers = [c \in CallerIds |-> Idle]
    /\ serial = Snapshot
    /\ attempts = [n \in SysNames |-> NoAttempt]
    /\ paging = NoSearch
    /\ clock = 0
    /\ _event_dedup_cache = EmptyMap
    /\ slack = NoSlack
    /\ callback_registry = EmptyMap
    /\ callback = NoCallback

Init == CompositorInit /\ SystemInit /\ mode = "compositor"

MountServerOf(resource) ==
    LET r == mount_server(providers, mounts, resource)
    IN  CompositorCall("mount_server", resource.name, r, r.log = "Mounted MCP server")

UnmountServerOf(name) ==
    CompositorCall("unmount_server", name, unmount_server(providers, mounts, name),
                   name \in DOMAIN mounts)

DisableServerOf(name) ==
    CompositorCall("disable_server", name, disable_server(providers, mounts, name),
                   name \in DOMAIN mounts)

EnableServerOf(name) ==
    CompositorCall("enable_server", name, enable_server(providers, mounts, name),
                   name \in DOMAIN mounts)

MountServer == \E resource \in Resources : MountServerOf(resource) /\ UNCHANGED system_vars

UnmountServer == \E name \in Names : UnmountServerOf(name) /\ UNCHANGED system_vars

DisableServer == \E name \in Names : DisableServerOf(name) /\ UNCHANGED system_vars

EnableServer == \E name \in Names : EnableServerOf(name) /\ UNCHANGED system_vars

Next == MountServer \/ UnmountServer \/ DisableServer \/ EnableServer

\* The Compositor alone, called by one client at a time.
Spec == Init /\ [][Next]_vars

\* The owner of the aggregate takes a provider off its list behind the
\* Compositor's back ("may already be removed").
ExternalRemoval ==
    /\ mode = "desync"
    /\ initial_count + Cardinality(DOMAIN mounts) - Len(providers) < MaxUnnoticed
    /\ \E idx \in 0..(Len(providers) - 1) : providers' = Pop(providers, idx)
    /\ UNCHANGED <<mounts, initial_count, system_vars, observer_vars>>

\* The resources mounted next to the owner's removals: well-formed, enabled.
DesyncResources ==
    {r \in Resources : /\ r.name \in SysNames
                       /\ r.is_enabled
                       /\ r.transport_type = "streamable_http"
                       /\ r.url \notin {None, ""}
                       /\ r.command = None}

DesyncMountServer ==
    \E resource \in DesyncResources : MountServerOf(resource) /\ UNCHANGED system_vars

DesyncUnmountServer ==
    \E name \in SysNames : UnmountServerOf(name) /\ UNCHANGED system_vars

DesyncInit == CompositorInit /\ SystemInit /\ mode = "desync"

DesyncNext ==
    \/ DesyncMountServer
    \/ DesyncUnmountServer
    \/ ExternalRemoval

\* The Compositor on an aggregate that its owner mutates as well.
SpecDesync == DesyncInit /\ [][DesyncNext]_vars

\* ------------------------------------------------------ concurrent callers

\* The four methods are coroutines run by one event loop: a coroutine, once
\* it runs, runs on until it awaits or returns, and only then does another
\* one run.

CompositorOps == {"mount_server", "unmount_server", "disable_server", "enable_server"}

\* Variant: each method awaits once, after it has read the entry, the position
\* or the list and before it writes what follows from them (a proxy made with
\* `await`, or an `async with` around part of the body).
suspension_points_after_read(op) == {"after_read"}

\* The await expressions inside the body of method op: there is none.
suspension_points(op) == {}

\* The call of op on P and M as a whole.
WholeCall(P, M, op, arg) ==
    IF op = "mount_server" THEN mount_server(P, M, arg)
    ELSE IF op = "unmount_server" THEN unmount_server(P, M, arg)
    ELSE IF op = "disable_server" THEN disable_server(P, M, arg)
    ELSE enable_server(P, M, arg)

NameOf(op, arg) == IF op = "mount_server" THEN arg.name ELSE arg

\* Where a coroutine has got to: the provider list and mount table it leaves
\* and the coroutine itself (Idle once it has returned or raised).
Reached(P, M, co) == [providers |-> P, mounts |-> M, co |-> co]

\* The body of co.op up to the point "after_read": mount_server up to and
\* including self._server.mount(...); unmount_server up to idx =
\* entry.provider_index; disable_server and enable_server likewise. A call
\* that returns or raises before that point is over.
UpToRead(P, M, co) ==
    LET name == NameOf(co.op, co.arg)
        whole == WholeCall(P, M, co.op, co.arg)
        on == [co EXCEPT !.pc = "suspended"]
    IN  IF co.op = "mount_server"
        THEN IF whole.log # "Mounted MCP server"
             THEN Reached(whole.providers, whole.mounts, Idle)
             ELSE Reached(Append(P, MountedProvider(name)), M, on)
        ELSE IF name \notin DOMAIN M
        THEN Reached(P, M, Idle)
        ELSE IF co.op = "unmount_server"
        THEN Reached(P, [n \in DOMAIN M \ {name} |-> M[n]],
                     [on EXCEPT !.seen = M[name].provider_index])
        ELSE Reached(P, M, [on EXCEPT !.seen = M[name].provider_index])

\* The rest of the body of co.op from the point "after_read", with what it
\* read before: mount_server records len(providers) - 1; unmount_server pops
\* and re-indexes; disable_server and enable_server toggle the provider at the
\* position read and the flag of the entry read.
FromRead(P, M, co) ==
    LET name == NameOf(co.op, co.arg)
        idx == co.seen
        flag == co.op = "disable_server"
    IN  IF co.op = "mount_server"
        THEN Reached(P, [n \in DOMAIN M \cup {name} |->
                           IF n = name THEN _MountEntry(name, Len(P) - 1) ELSE M[n]],
                     Idle)
        ELSE IF idx >= Len(P)
        THEN Reached(P, M, Idle)
        ELSE IF co.op = "unmount_server"
        THEN Reached(Pop(P, idx),
                     [n \in DOMAIN M |->
                        IF M[n].provider_index > idx
                        THEN [M[n] EXCEPT !.provider_index = @ - 1]
                        ELSE M[n]],
                     Idle)
        ELSE Reached([P EXCEPT ![idx + 1].enabled = ~flag],
                     [n \in DOMAIN M |->
                        IF n = name THEN [M[n] EXCEPT !.disabled = flag] ELSE M[n]],
                     Idle)

\* The event loop runs coroutine co from where it is to its next await, or to
\* its end.
RunOn(P, M, co) ==
    IF co.pc = "suspended"
    THEN FromRead(P, M, co)
    ELSE IF "after_read" \in suspension_points(co.op)
    THEN UpToRead(P, M, co)
    ELSE LET whole == WholeCall(P, M, co.op, co.arg)
         IN  Reached(whole.providers, whole.mounts, Idle)

\* The names the concurrent calls are about: two, so that calls meet on one
\* name and the unmount of one shifts the other.
SharedNames == {NameList[1], NameList[2]}

\* A caller invokes a method: the coroutine is scheduled, nothing has run.
CallerInvokes ==
    \E c \in CallerIds, op \in CompositorOps, name \in SharedNames :
        /\ mode = "concurrent"
        /\ callers[c] = Idle
        /\ \E arg \in IF op = "mount_server"
                       THEN {r \in DesyncResources : r.name = name} ELSE {name} :
              callers' = [callers EXCEPT ![c] = Coroutine(op, arg, "called", 0)]
        /\ UNCHANGED <<compositor_vars, observer_vars, store, containers, inflight,
                       finished, pool, checked, serial, attempts,
                       integration_vars>>

\* The event loop runs one of the coroutines that can run. When it is one
\* that starts, the same call is made on `serial` as a whole.
LoopRuns ==
    \E c \in CallerIds :
        /\ mode = "concurrent"
        /\ callers[c] # Idle
        /\ LET co == callers[c]
               r == RunOn(providers, mounts, co)
               one == WholeCall(serial.providers, serial.mounts, co.op, co.arg)
           IN  /\ providers' = r.providers
               /\ mounts' = r.mounts
               /\ callers' = [callers EXCEPT ![c] = r.co]
               /\ serial' = IF co.pc = "called"
                             THEN [providers |-> one.providers, mounts |-> one.mounts]
                             ELSE serial
        /\ UNCHANGED <<initial_count, observer_vars, store, containers, inflight,
                       finished, pool, checked, attempts, integration_vars>>

ConcurrentInit == CompositorInit /\ SystemInit /\ mode = "concurrent"

ConcurrentNext == CallerInvokes \/ LoopRuns

\* Callers invoking the Compositor's coroutines concurrently on one loop.
SpecConcurrent == ConcurrentInit /\ [][ConcurrentNext]_vars

\* --------------------------------------------------------- lifecycle hooks

DockerImages == {None, "ghcr.io/mcp/server:latest"}

\* The resources handed to on_server_created.
LifeResources ==
    [name : SysNames, transport_type : {"streamable_http"},
     url : {None, "http://mcp:8000/mcp"}, command : {None},
     docker_image : DockerImages, is_enabled : BOOLEAN]

\* Which collaborator calls of one hook invocation raise (a failing container
\* backend, pool or compositor).
CreatedFaults == [start_server : BOOLEAN, mount_server : BOOLEAN]
DeletedFaults == [unmount_server : BOOLEAN, evict : BOOLEAN, stop_server : BOOLEAN]

Event(step, ev) == [step |-> step, ev |-> ev]

\* The state a hook works on, and the calls it has made.
Context(calls) ==
    [providers |-> providers, mounts |-> mounts, containers |-> containers,
     pool |-> pool, calls |-> calls, pc |-> 0, raised |-> NoError]

\* Variant: no except clause, the exception of a failing call leaves the hook.
Attempt_propagates(ctx, step, raises) ==
    [ctx EXCEPT !.calls = @ \o <<Event(step, "call"),
                                 Event(step, IF raises THEN "raise" ELSE "return")>>,
                !.raised = IF raises THEN "Exception" ELSE @]

\* try: <call> except Exception: logger.warning(...) - the call is made, and
\* what it raises is absorbed.
Attempt(ctx, step, raises) ==
    [ctx EXCEPT !.calls = @ \o <<Event(step, "call"),
                                 Event(step, IF raises THEN "raise" ELSE "return")>>]

\* ContainerManager.start_server / stop_server on the set of running containers.
start_server(running, name) == running \cup {name}
stop_server(running, name) == running \ {name}

\* Variant: the mount is attempted before the container is started.
on_server_created_steps_mount_first == <<"mount_server", "start_server">>

\* The side effects of on_server_created, in the order the code attempts them.
on_server_created_steps == <<"start_server", "mount_server">>

\* Variant: a failing start_server is not caught.
CreatedStep_start_not_caught(ctx, step, resource, manager, faults) ==
    IF step = "start_server"
    THEN IF ~Falsy(resource.docker_image) /\ manager
         THEN IF faults.start_server
              THEN Attempt_propagates(ctx, step, TRUE)
              ELSE Attempt([ctx EXCEPT !.containers = start_server(@, resource.name)],
                           step, FALSE)
         ELSE ctx
    ELSE IF faults.mount_server
    THEN Attempt(ctx, step, TRUE)
    ELSE LET r == mount_server(ctx.providers, ctx.mounts, resource)
         IN  Attempt([ctx EXCEPT !.providers = r.providers, !.mounts = r.mounts],
                     step, r.raised # NoError)

\* Variant: a failing mount_server is not caught.
CreatedStep_mount_not_caught(ctx, step, resource, manager, faults) ==
    IF step = "start_server"
    THEN IF ~Falsy(resource.docker_image) /\ manager
         THEN IF faults.start_server
              THEN Attempt(ctx, step, TRUE)
              ELSE Attempt([ctx EXCEPT !.containers = start_server(@, resource.name)],
                           step, FALSE)
         ELSE ctx
    ELSE IF faults.mount_server
    THEN Attempt_propagates(ctx, step, TRUE)
    ELSE LET r == mount_server(ctx.providers, ctx.mounts, resource)
         IN  Attempt_propagates([ctx EXCEPT !.providers = r.providers, !.mounts = r.mounts],
                     step, r.raised # NoError)

\* One try/except block of on_server_created.
\* Variant: a name that is mounted already is unmounted and mounted afresh.
CreatedStep_remounts(ctx, step, resource, manager, faults) ==
    IF step = "start_server"
    THEN IF ~Falsy(resource.docker_image) /\ manager
         THEN IF faults.start_server
              THEN Attempt(ctx, step, TRUE)
              ELSE Attempt([ctx EXCEPT !.containers = start_server(@, resource.name)],
                           step, FALSE)
         ELSE ctx
    ELSE IF faults.mount_server
    THEN Attempt(ctx, step, TRUE)
    ELSE LET u == unmount_server(ctx.providers, ctx.mounts, resource.name)
             r == mount_server(u.providers, u.mounts, resource)
         IN  Attempt([ctx EXCEPT !.providers = r.providers, !.mounts = r.mounts],
                     step, r.raised # NoError)

CreatedStep(ctx, step, resource, manager, faults) ==
    IF step = "start_server"
    THEN IF ~Falsy(resource.docker_image) /\ manager
         THEN IF faults.start_server
              THEN Attempt(ctx, step, TRUE)
              ELSE Attempt([ctx EXCEPT !.containers = start_server(@, resource.name)],
                           step, FALSE)
         ELSE ctx
    ELSE IF faults.mount_server
    THEN Attempt(ctx, step, TRUE)
    ELSE LET r == mount_server(ctx.providers, ctx.mounts, resource)
         IN  Attempt([ctx EXCEPT !.providers = r.providers, !.mounts = r.mounts],
                     step, r.raised # NoError)

RECURSIVE RunCreated(_, _, _, _, _, _)
RunCreated(ctx, steps, i, resource, manager, faults) ==
    IF i > Len(steps) \/ ctx.raised # NoError
    THEN [ctx EXCEPT !.pc = Len(steps) + 1]
    ELSE RunCreated(CreatedStep(ctx, steps[i], resource, manager, faults),
                    steps, i + 1, resource, manager, faults)

\* Variant: pool eviction is attempted before the unmount.
on_server_deleted_steps_evict_first == <<"evict", "unmount_server", "stop_server">>

\* The side effects of on_server_deleted, in the order the code attempts them.
on_server_deleted_steps == <<"unmount_server", "evict", "stop_server">>

\* One try/except block of on_server_deleted that runs without suspending.
DeletedStep(ctx, step, name, manager, faults) ==
    IF step = "unmount_server"
    THEN IF faults.unmount_server
         THEN Attempt(ctx, step, TRUE)
         ELSE LET r == unmount_server(ctx.providers, ctx.mounts, name)
              IN  Attempt([ctx EXCEPT !.providers = r.providers, !.mounts = r.mounts],
                          step, r.raised # NoError)
    ELSE IF step = "stop_server"
    THEN IF manager
         THEN IF faults.stop_server
              THEN Attempt(ctx, step, TRUE)
              ELSE Attempt([ctx EXCEPT !.containers = stop_server(@, name)],
                           step, FALSE)
         ELSE ctx
    ELSE ctx

\* on_server_deleted from step i on, up to the await of pool.evict (where it
\* suspends with the call made) or to its end.
RECURSIVE RunDeleted(_, _, _, _, _, _)
RunDeleted(ctx, steps, i, name, manager, faults) ==
    IF i > Len(steps) \/ ctx.raised # NoError
    THEN [ctx EXCEPT !.pc = Len(steps) + 1]
    ELSE IF steps[i] = "evict"
    THEN [ctx EXCEPT !.pc = i, !.calls = Append(@, Event("evict", "call"))]
    ELSE RunDeleted(DeletedStep(ctx, steps[i], name, manager, faults),
                    steps, i + 1, name, manager, faults)

\* ConnectionPool.evict: idempotently drops the pooled state of a name.
evict(connections, name) == connections \ {name}

\* The awaited pool.evict is over: it has dropped the connection and returned,
\* or it has raised.
Evicted(ctx, name, raises) ==
    [ctx EXCEPT !.pool = IF raises THEN @ ELSE evict(@, name),
                !.calls = Append(@, Event("evict",
                                          IF raises THEN "raise" ELSE "return"))]

\* The observers follow direct Compositor calls only: a hook ends any run.
ObserversLoseTrack ==
    /\ last' = IF watching THEN NoCall ELSE last
    /\ trail' = IF watching THEN NoTrail ELSE trail
    /\ UNCHANGED <<mode, checked, concurrency_vars, integration_vars>>

\* A hook has run to context c: its effects, and where the invocation is now.
HookRan(slot, inv, c, steps) ==
    /\ providers' = c.providers
    /\ mounts' = c.mounts
    /\ containers' = c.containers
    /\ pool' = c.pool
    /\ IF c.pc <= Len(steps)
       THEN /\ inflight' = [inflight EXCEPT ![slot] = inv]
            /\ finished' = NoInvocation
       ELSE /\ inflight' = [inflight EXCEPT ![slot] = NoInvocation]
            /\ finished' = inv
    /\ ObserversLoseTrack
    /\ UNCHANGED <<initial_count, store>>

\* The faults that can show: collaborators fail in the "lifecycle" setting
\* only, and a call that is not made cannot raise.
CreatedFaultsOf(resource, manager) ==
    {f \in CreatedFaults :
        /\ f.start_server => ~Falsy(resource.docker_image) /\ manager
        /\ f.start_server \/ f.mount_server => mode = "lifecycle"}

DeletedFaultsOf(manager, resuming) ==
    {f \in DeletedFaults :
        /\ f.stop_server => manager
        /\ f.evict => resuming
        /\ f.unmount_server => ~resuming
        /\ f.unmount_server \/ f.evict \/ f.stop_server => mode = "lifecycle"}

\* No invocation is suspended or just back: the caller awaits each hook, and
\* takes its return, before its next call.
Quiet ==
    /\ finished = NoInvocation
    /\ \A slot \in 1..MaxInFlight : inflight[slot] = NoInvocation

OnServerCreatedOf(resource, manager) ==
    \E faults \in CreatedFaultsOf(resource, manager) :
        \E c \in {RunCreated(Context(<<>>), on_server_created_steps, 1,
                             resource, manager, faults)} :
            /\ providers' = c.providers
            /\ mounts' = c.mounts
            /\ containers' = c.containers
            /\ finished' = [Invocation("on_server_created", resource.name, manager,
                                       ~Falsy(resource.docker_image), c.pc, c.calls)
                               EXCEPT !.raised = c.raised]
            /\ ObserversLoseTrack
            /\ UNCHANGED <<initial_count, store, inflight, pool>>

OnServerDeletedCall(name, manager) ==
    \E slot \in 1..MaxInFlight, faults \in DeletedFaultsOf(manager, FALSE) :
        /\ inflight[slot] = NoInvocation
        /\ \A k \in 1..(slot - 1) : inflight[k] # NoInvocation
        /\ \E c \in {RunDeleted(Context(<<>>), on_server_deleted_steps, 1,
                                 name, manager, faults)} :
               HookRan(slot,
                       [Invocation("on_server_deleted", name, manager, FALSE,
                                   c.pc, c.calls) EXCEPT !.raised = c.raised],
                       c, on_server_deleted_steps)

\* pool.evict returns or raises, and the suspended invocation runs on.
OnServerDeletedResume(slot) ==
    /\ inflight[slot] # NoInvocation
    /\ \E faults \in DeletedFaultsOf(inflight[slot].manager, TRUE) :
          LET inv == inflight[slot]
              back == Evicted(Context(inv.calls), inv.name, faults.evict)
          IN  \E c \in {RunDeleted(back, on_server_deleted_steps, inv.pc + 1,
                                    inv.name, inv.manager, faults)} :
                  HookRan(slot, [inv EXCEPT !.pc = c.pc, !.calls = c.calls,
                                            !.raised = c.raised],
                          c, on_server_deleted_steps)

OnServerCreated ==
    /\ Quiet
    /\ \E resource \in LifeResources, manager \in BOOLEAN :
          OnServerCreatedOf(resource, manager)

OnServerDeleted ==
    /\ Quiet
    /\ \E name \in SysNames, manager \in BOOLEAN : OnServerDeletedCall(name, manager)

OnServerDeletedResumes == \E slot \in 1..MaxInFlight : OnServerDeletedResume(slot)

\* The awaited hook has returned to its caller.
HookReturns ==
    /\ finished # NoInvocation
    /\ finished' = NoInvocation
    /\ UNCHANGED <<compositor_vars, observer_vars, store, containers, inflight,
                   pool, checked, concurrency_vars, integration_vars>>

\* An operator toggles the visibility of a mount between two hooks.
LifeDisableServer ==
    /\ Quiet
    /\ \E name \in SysNames : DisableServerOf(name) /\ UNCHANGED system_vars

LifeEnableServer ==
    /\ Quiet
    /\ \E name \in SysNames : EnableServerOf(name) /\ UNCHANGED system_vars

LifeInit == CompositorInit /\ SystemInit /\ mode = "lifecycle"

LifeNext ==
    \/ OnServerCreated
    \/ OnServerDeleted
    \/ OnServerDeletedResumes
    \/ HookReturns
    \/ LifeDisableServer
    \/ LifeEnableServer

\* The lifecycle hooks, awaited one at a time, on the real Compositor, with
\* collaborators that may fail.
SpecLife == LifeInit /\ [][LifeNext]_vars

\* The hooks invoked without awaiting one another: an on_server_created may
\* run while an on_server_deleted is suspended at pool.evict. The resources
\* are docker-backed and well-formed, a container manager is passed, and no
\* collaborator fails.
OverlapResources ==
    {r \in LifeResources : ~Falsy(r.docker_image) /\ ~Falsy(r.url) /\ r.is_enabled}

OverlapCreated ==
    /\ finished = NoInvocation
    /\ \E resource \in OverlapResources : OnServerCreatedOf(resource, TRUE)

OverlapDeleted ==
    /\ finished = NoInvocation
    /\ \E name \in SysNames : OnServerDeletedCall(name, TRUE)

OverlapResumes ==
    /\ finished = NoInvocation
    /\ OnServerDeletedResumes

OverlapInit == CompositorInit /\ SystemInit /\ mode = "overlap"

OverlapNext == OverlapCreated \/ OverlapDeleted \/ OverlapResumes \/ HookReturns

SpecOverlap == OverlapInit /\ [][OverlapNext]_vars

\* ------------------------------------------- resource store and API handlers

\* The admin sentinel role, the callers and the role lists they present.
AdminRole == "mcp.admin"
Users == {"alice", "bob"}
CallerRoles == {{}, {"engineering"}, {AdminRole}}

Url == "http://mcp:8000/mcp"

\* McpServerResource as the handlers build it (args, env, docker_ports and the
\* timestamps play no part in what is modelled).
McpServerResource(name, transport_type, created_by, url, command, docker_image, required_roles, is_enabled) ==
    [name |-> name, transport_type |-> transport_type, created_by |-> created_by,
     url |-> url, command |-> command, docker_image |-> docker_image,
     required_roles |-> required_roles, is_enabled |-> is_enabled]

\* What store.get returns for a name it does not hold.
NoResource == [name |-> None]

\* InMemoryMcpResourceStore: create-or-replace by name, lookup, idempotent delete.
upsert(S, resource) ==
    [n \in DOMAIN S \cup {resource.name} |-> IF n = resource.name THEN resource ELSE S[n]]

get(S, name) == IF name \in DOMAIN S THEN S[name] ELSE NoResource

delete(S, name) == [n \in DOMAIN S \ {name} |-> S[n]]

list_all(S) == {S[n] : n \in DOMAIN S}

\* McpServerResource.can_access.
can_access(resource, user_id, roles, operation) ==
    \/ user_id = resource.created_by
    \/ AdminRole \in roles
    \/ /\ operation = "read"
       /\ \/ resource.required_roles = {}
          \/ resource.required_roles \cap roles # {}

\* dict.get(key, default).
Get(data, key, default) == IF key \in DOMAIN data THEN data[key] ELSE default

Ok(resource) == [ok |-> TRUE, data |-> resource]
Failed(error) == [ok |-> FALSE, error |-> error]
Handled(S, response) == [store |-> S, response |-> response]

\* Variant: the listing is not filtered by the access policy.
handle_list_unfiltered(S, user_id, roles) == Handled(S, Ok(list_all(S)))

handle_list(S, user_id, roles) ==
    Handled(S, Ok({r \in list_all(S) : can_access(r, user_id, roles, "read")}))

handle_create(S, user_id, data) ==
    LET name == Get(data, "name", None)
        transport_type == Get(data, "transport_type", None)
        resource == McpServerResource(name, transport_type, user_id,
                                      Get(data, "url", None),
                                      Get(data, "command", None),
                                      Get(data, "docker_image", None),
                                      Get(data, "required_roles", {}),
                                      Get(data, "is_enabled", TRUE))
    IN  IF Falsy(name)
        THEN Handled(S, Failed("Missing required field: name"))
        ELSE IF Falsy(transport_type)
        THEN Handled(S, Failed("Missing required field: transport_type"))
        ELSE Handled(upsert(S, resource), Ok(resource))

\* Variant: the update is checked against the read policy.
handle_update_checks_read(S, user_id, roles, data) ==
    LET name == Get(data, "name", None)
        existing == get(S, name)
        merged == McpServerResource(existing.name,
                                    Get(data, "transport_type", existing.transport_type),
                                    existing.created_by,
                                    Get(data, "url", existing.url),
                                    Get(data, "command", existing.command),
                                    Get(data, "docker_image", existing.docker_image),
                                    Get(data, "required_roles", existing.required_roles),
                                    Get(data, "is_enabled", existing.is_enabled))
    IN  IF Falsy(name)
        THEN Handled(S, Failed("Missing required field: name"))
        ELSE IF existing = NoResource
        THEN Handled(S, Failed("Resource not found"))
        ELSE IF ~can_access(existing, user_id, roles, "read")
        THEN Handled(S, Failed("Forbidden: insufficient permissions"))
        ELSE Handled(upsert(S, merged), Ok(merged))

handle_update(S, user_id, roles, data) ==
    LET name == Get(data, "name", None)
        existing == get(S, name)
        merged == McpServerResource(existing.name,
                                    Get(data, "transport_type", existing.transport_type),
                                    existing.created_by,
                                    Get(data, "url", existing.url),
                                    Get(data, "command", existing.command),
                                    Get(data, "docker_image", existing.docker_image),
                                    Get(data, "required_roles", existing.required_roles),
                                    Get(data, "is_enabled", existing.is_enabled))
    IN  IF Falsy(name)
        THEN Handled(S, Failed("Missing required field: name"))
        ELSE IF existing = NoResource
        THEN Handled(S, Failed("Resource not found"))
        ELSE IF ~can_access(existing, user_id, roles, "write")
        THEN Handled(S, Failed("Forbidden: insufficient permissions"))
        ELSE Handled(upsert(S, merged), Ok(merged))

\* Variant: the permission check comes first, and a caller who cannot write
\* is refused whether or not the name exists.
handle_delete_permission_first(S, user_id, roles, name) ==
    LET existing == get(S, name)
    IN  IF existing = NoResource /\ AdminRole \notin roles
        THEN Handled(S, Failed("Forbidden: insufficient permissions"))
        ELSE IF existing = NoResource
        THEN Handled(S, Failed("Resource not found"))
        ELSE IF ~can_access(existing, user_id, roles, "write")
        THEN Handled(S, Failed("Forbidden: insufficient permissions"))
        ELSE Handled(delete(S, name), [ok |-> TRUE])

handle_delete(S, user_id, roles, name) ==
    LET existing == get(S, name)
    IN  IF existing = NoResource
        THEN Handled(S, Failed("Resource not found"))
        ELSE IF ~can_access(existing, user_id, roles, "write")
        THEN Handled(S, Failed("Forbidden: insufficient permissions"))
        ELSE Handled(delete(S, name), [ok |-> TRUE])

\* handle_status, with the container manager's running set when one is
\* supplied.
handle_status(S, name, manager, running) ==
    LET existing == get(S, name)
    IN  IF existing = NoResource
        THEN Handled(S, Failed("Resource not found"))
        ELSE Handled(S, Ok([name |-> existing.name,
                            transport_type |-> existing.transport_type,
                            is_enabled |-> existing.is_enabled,
                            container |->
                                IF manager
                                THEN [running |-> name \in running,
                                      status |-> IF name \in running
                                                 THEN "running" ELSE "not_found"]
                                ELSE [running |-> FALSE, status |-> "no_manager"]]))

\* `x or y` on strings.
Or(x, y) == IF x = "" THEN y ELSE x

\* handle_install: the transport, command, image and url inferred from the
\* first package, else from the first remote, of a registry entry.
handle_install(S, user_id, server_data) ==
    LET name == Get(server_data, "name", None)
        packages == Get(server_data, "packages", <<>>)
        remotes == Get(server_data, "remotes", <<>>)
        pkg == packages[1]
        remote == remotes[1]
        registry == Or(Get(pkg, "registry_name", ""), Get(pkg, "registryType", ""))
        pkg_transport == Get(pkg, "transport", "")
        identifier == Get(pkg, "identifier", "")
        transport_type ==
            IF packages # <<>>
            THEN IF registry \in {"npm", "pip", "pypi", "docker", "oci"}
                 THEN Or(pkg_transport, "stdio")
                 ELSE "streamable_http"
            ELSE IF remotes # <<>>
            THEN IF Get(remote, "type", "streamable-http") \in {"streamable-http", "http"}
                 THEN "streamable_http"
                 ELSE Get(remote, "type", "streamable-http")
            ELSE "streamable_http"
        command ==
            IF packages # <<>> /\ registry = "npm" THEN "npx"
            ELSE IF packages # <<>> /\ registry \in {"pip", "pypi"} THEN "uvx"
            ELSE ""
        docker_image ==
            IF packages # <<>> /\ registry \in {"docker", "oci"}
            THEN Or(identifier, Get(pkg, "name", ""))
            ELSE ""
        url == IF packages = <<>> /\ remotes # <<>> THEN Get(remote, "url", "") ELSE ""
        resource == McpServerResource(name, transport_type, user_id,
                                      IF url = "" THEN None ELSE url,
                                      command,
                                      IF docker_image = "" THEN None ELSE docker_image,
                                      {}, TRUE)
    IN  IF Falsy(name)
        THEN Handled(S, Failed("Missing required field: name"))
        ELSE Handled(upsert(S, resource), Ok(resource))

\* The request bodies tried on handle_create ...
CreateRequests ==
    {[action |-> "create"]}
    \cup {[action |-> "create", name |-> n] : n \in SysNames}
    \cup {[action |-> "create", name |-> n, transport_type |-> "streamable_http",
           url |-> Url] : n \in SysNames}
    \cup {[action |-> "create", name |-> n, transport_type |-> "stdio",
           command |-> "npx", required_roles |-> {"engineering"},
           is_enabled |-> FALSE] : n \in SysNames}

\* ... on handle_update ...
UpdateRequests ==
    {[action |-> "update"]}
    \cup {[action |-> "update", name |-> n, is_enabled |-> b] :
            n \in SysNames, b \in BOOLEAN}

\* ... and the registry entries tried on handle_install.
InstallRequests ==
    {[action |-> "install"]}
    \cup {[name |-> n, remotes |-> <<[type |-> "streamable-http", url |-> Url]>>] :
            n \in SysNames}
    \cup {[name |-> n,
           packages |-> <<[registryType |-> "npm", identifier |-> "@mcp/server"]>>] :
            n \in SysNames}

\* A handler ran: only the store may have changed.
StoreBecomes(S) ==
    /\ finished = NoInvocation
    /\ store' = S
    /\ UNCHANGED <<compositor_vars, observer_vars, containers, inflight, finished,
                   pool, checked, concurrency_vars, integration_vars>>

HandleCreate ==
    \E user_id \in Users, data \in CreateRequests :
        StoreBecomes(handle_create(store, user_id, data).store)

HandleUpdate ==
    \E user_id \in Users, roles \in CallerRoles, data \in UpdateRequests :
        StoreBecomes(handle_update(store, user_id, roles, data).store)

HandleDelete ==
    \E user_id \in Users, roles \in CallerRoles, name \in SysNames \cup {""} :
        StoreBecomes(handle_delete(store, user_id, roles, name).store)

HandleInstall ==
    \E user_id \in Users, server_data \in InstallRequests :
        StoreBecomes(handle_install(store, user_id, server_data).store)

\* The hooks, called for a stored resource and for any name (the API process
\* holds no container manager), and the Compositor, called directly.
SysOnServerCreated ==
    /\ Quiet
    /\ \E name \in DOMAIN store : OnServerCreatedOf(store[name], FALSE)

SysOnServerDeleted ==
    /\ Quiet
    /\ \E name \in SysNames : OnServerDeletedCall(name, FALSE)

SysMountServer ==
    /\ Quiet
    /\ \E name \in DOMAIN store : MountServerOf(store[name]) /\ UNCHANGED system_vars

SysUnmountServer ==
    /\ Quiet
    /\ \E name \in SysNames : UnmountServerOf(name) /\ UNCHANGED system_vars

SysInit == CompositorInit /\ SystemInit /\ mode = "system"

SysNext ==
    \/ HandleCreate
    \/ HandleUpdate
    \/ HandleDelete
    \/ HandleInstall
    \/ SysOnServerCreated
    \/ SysOnServerDeleted
    \/ OnServerDeletedResumes
    \/ HookReturns
    \/ SysMountServer
    \/ SysUnmountServer
    \/ LifeDisableServer
    \/ LifeEnableServer

\* The API handlers over the store, with the lifecycle hooks and the
\* Compositor operations run between them; no collaborator fails.
SpecSys == SysInit /\ [][SysNext]_vars

\* The API handlers alone, called by any caller in any order.
HandleList ==
    \E user_id \in Users, roles \in CallerRoles :
        StoreBecomes(handle_list(store, user_id, roles).store)

HandleStatus ==
    \E name \in SysNames \cup {""}, manager \in BOOLEAN :
        StoreBecomes(handle_status(store, name, manager, containers).store)

ApiInit == CompositorInit /\ SystemInit /\ mode = "api"

ApiNext ==
    \/ HandleList
    \/ HandleStatus
    \/ HandleCreate
    \/ HandleUpdate
    \/ HandleDelete
    \/ HandleInstall

SpecApi == ApiInit /\ [][ApiNext]_vars

\* ------------------------------------------------------------ health checker

\* ConnectionPool.get_or_create: a live pooled connection for the name.
get_or_create(connections, name) == connections \cup {name}

\* ContainerManager.get_status.
manager_get_status(running, name) ==
    [running |-> name \in running,
     container_id |-> IF name \in running THEN "abc123" ELSE None,
     status |-> IF name \in running THEN "running" ELSE "not_found"]

\* A health-checker call: the collaborator calls it made, what it returned or
\* raised, and the pool and the store as it leaves them.
Check(op, calls, result, raised, connections, S) ==
    [op |-> op, calls |-> calls, result |-> result, raised |-> raised,
     pool |-> connections, store |-> S]

\* Variant: no except clause around pool.health_check.
run_health_check_not_caught(S, after, raises) ==
    IF raises
    THEN Check("run_health_check", {"pool.health_check"}, {}, "RuntimeError", after, S)
    ELSE Check("run_health_check", {"pool.health_check", "pool.active_count"},
               [ok |-> TRUE, pool_active |-> Cardinality(after)], NoError, after, S)

\* run_health_check, where pool.health_check leaves the connections `after`
\* and returns, or raises.
run_health_check(S, after, raises) ==
    IF raises
    THEN Check("run_health_check", {"pool.health_check"},
               [ok |-> FALSE, error |-> "pool broken"], NoError, after, S)
    ELSE Check("run_health_check", {"pool.health_check", "pool.active_count"},
               [ok |-> TRUE, pool_active |-> Cardinality(after)], NoError, after, S)

\* Variant: the store's resources are not filtered by docker_image.
check_docker_servers_unfiltered(connections, S, running, reachable, failing) ==
    LET docker_resources == list_all(S)
    IN  IF docker_resources = {}
        THEN Check("check_docker_servers", {"store.list_all"}, {}, NoError,
                   connections, S)
        ELSE IF ~reachable
        THEN Check("check_docker_servers", {"store.list_all", "McpContainerManager"},
                   {[name |-> r.name, running |-> FALSE, error |-> "Docker unavailable"] :
                        r \in docker_resources},
                   NoError, connections, S)
        ELSE IF \E r \in docker_resources : r.name \in failing
        THEN Check("check_docker_servers",
                   {"store.list_all", "McpContainerManager", "manager.get_status"},
                   {}, "Exception", connections, S)
        ELSE Check("check_docker_servers",
                   {"store.list_all", "McpContainerManager", "manager.get_status"},
                   {[name |-> r.name,
                     running |-> manager_get_status(running, r.name).running,
                     container_id |-> manager_get_status(running, r.name).container_id,
                     status |-> manager_get_status(running, r.name).status] :
                        r \in docker_resources},
                   NoError, connections, S)

\* check_docker_servers, where McpContainerManager() succeeds iff the backend
\* is reachable and manager.get_status raises for the names in failing.
check_docker_servers(connections, S, running, reachable, failing) ==
    LET docker_resources == {r \in list_all(S) : ~Falsy(r.docker_image)}
    IN  IF docker_resources = {}
        THEN Check("check_docker_servers", {"store.list_all"}, {}, NoError,
                   connections, S)
        ELSE IF ~reachable
        THEN Check("check_docker_servers", {"store.list_all", "McpContainerManager"},
                   {[name |-> r.name, running |-> FALSE, error |-> "Docker unavailable"] :
                        r \in docker_resources},
                   NoError, connections, S)
        ELSE IF \E r \in docker_resources : r.name \in failing
        THEN Check("check_docker_servers",
                   {"store.list_all", "McpContainerManager", "manager.get_status"},
                   {}, "Exception", connections, S)
        ELSE Check("check_docker_servers",
                   {"store.list_all", "McpContainerManager", "manager.get_status"},
                   {[name |-> r.name,
                     running |-> manager_get_status(running, r.name).running,
                     container_id |-> manager_get_status(running, r.name).container_id,
                     status |-> manager_get_status(running, r.name).status] :
                        r \in docker_resources},
                   NoError, connections, S)

\* Variant: the status is refreshed by a probe of the pool first.
get_status_probing(connections, S) ==
    Check("get_status", {"pool.health_check", "pool.active_count", "store.list_all"},
          [pool_connections |-> 0, registered_servers |-> Cardinality(list_all(S))],
          NoError, {}, S)

get_status(connections, S) ==
    Check("get_status", {"pool.active_count", "store.list_all"},
          [pool_connections |-> Cardinality(connections),
           registered_servers |-> Cardinality(list_all(S))],
          NoError, connections, S)

\* The resources registered while the health checker is watched: with and
\* without a docker image.
HealthRequests ==
    {[action |-> "create", name |-> n, transport_type |-> "stdio",
      command |-> "npx"] : n \in SysNames}
    \cup {[action |-> "create", name |-> n, transport_type |-> "stdio",
           docker_image |-> "ghcr.io/mcp/server:latest"] : n \in SysNames}

\* A health-checker call is over.
CheckedAs(c) ==
    /\ checked' = c
    /\ pool' = c.pool
    /\ store' = c.store
    /\ UNCHANGED <<compositor_vars, observer_vars, containers, inflight, finished,
                   concurrency_vars, integration_vars>>

\* The gateway changes under the health checker.
GatewayBecomes(S, running, connections) ==
    /\ store' = S
    /\ containers' = running
    /\ pool' = connections
    /\ checked' = NoCheck
    /\ UNCHANGED <<compositor_vars, observer_vars, inflight, finished,
                   concurrency_vars, integration_vars>>

HealthCreate ==
    \E data \in HealthRequests :
        GatewayBecomes(handle_create(store, "admin", data).store, containers, pool)

HealthDelete ==
    \E name \in DOMAIN store :
        GatewayBecomes(handle_delete(store, store[name].created_by, {}, name).store,
                       containers, pool)

PoolConnects ==
    \E name \in DOMAIN store : GatewayBecomes(store, containers, get_or_create(pool, name))

PoolEvicts ==
    \E name \in pool : GatewayBecomes(store, containers, evict(pool, name))

ContainerStarts ==
    \E name \in DOMAIN store :
        /\ ~Falsy(store[name].docker_image)
        /\ GatewayBecomes(store, start_server(containers, name), pool)

ContainerStops ==
    \E name \in containers : GatewayBecomes(store, stop_server(containers, name), pool)

RunHealthCheck ==
    \E after \in SUBSET pool, raises \in BOOLEAN :
        CheckedAs(run_health_check(store, after, raises))

CheckDockerServers ==
    \E reachable \in BOOLEAN, failing \in SUBSET SysNames :
        CheckedAs(check_docker_servers(pool, store, containers, reachable, failing))

GetStatus == CheckedAs(get_status(pool, store))

HealthInit == CompositorInit /\ SystemInit /\ mode = "health"

HealthNext ==
    \/ HealthCreate
    \/ HealthDelete
    \/ PoolConnects
    \/ PoolEvicts
    \/ ContainerStarts
    \/ ContainerStops
    \/ RunHealthCheck
    \/ CheckDockerServers
    \/ GetStatus

\* The health checker, called while resources are registered and removed,
\* connections pooled and dropped, and containers started and stopped.
SpecHealth == HealthInit /\ [][HealthNext]_vars

\* --------------------------------------------------- the pool's callers

\* Where a get_or_create coroutine has got to: the pool's connections, the
\* attempts and the coroutine itself ("returned" with the connection in seen).
PoolReached(connections, A, co) == [pool |-> connections, attempts |-> A, co |-> co]

\* Variant: a caller that finds no pooled connection connects by itself,
\* whether or not an attempt for the name is open.
get_or_create_runs_uncoalesced(connections, A, co) ==
    LET name == co.arg
    IN  IF co.pc = "waiting"
        THEN PoolReached(connections, A, [co EXCEPT !.pc = "returned"])
        ELSE IF name \in connections
        THEN PoolReached(connections, A,
                         [co EXCEPT !.pc = "returned", !.seen = A[name].live])
        ELSE PoolReached(connections,
                         [A EXCEPT ![name].made = @ + 1, ![name].open = TRUE],
                         [co EXCEPT !.pc = "connecting", !.seen = A[name].made + 1])

\* ConnectionPool.get_or_create(name), run from where it is to its next
\* await or its return: it returns the pooled connection if there is one;
\* else it joins the attempt that is open for the name and awaits it; else it
\* opens an attempt and awaits the connect. A coroutine whose awaited attempt
\* is over returns the connection that attempt made.
get_or_create_runs(connections, A, co) ==
    LET name == co.arg
    IN  IF co.pc = "waiting"
        THEN PoolReached(connections, A, [co EXCEPT !.pc = "returned"])
        ELSE IF name \in connections
        THEN PoolReached(connections, A,
                         [co EXCEPT !.pc = "returned", !.seen = A[name].live])
        ELSE IF A[name].open
        THEN PoolReached(connections, A,
                         [co EXCEPT !.pc = "waiting", !.seen = A[name].made])
        ELSE PoolReached(connections,
                         [A EXCEPT ![name].made = @ + 1, ![name].open = TRUE],
                         [co EXCEPT !.pc = "connecting", !.seen = A[name].made + 1])

\* A caller asks the pool for the connection of a name. Callers are
\* interchangeable, so the first one that has not asked does; each asks once
\* and keeps the connection it obtained.
CallerRequests ==
    \E c \in CallerIds, name \in SysNames :
        /\ mode = "pool"
        /\ callers[c] = Idle
        /\ \A d \in 1..(c - 1) : callers[d] # Idle
        /\ callers' = [callers EXCEPT ![c] = Coroutine("get_or_create", name, "called", 0)]
        /\ UNCHANGED <<compositor_vars, observer_vars, store, containers, inflight,
                       finished, pool, checked, serial, attempts,
                       integration_vars>>

\* The event loop runs a get_or_create coroutine that can run: one that has
\* not started, or one whose awaited attempt is over.
PoolLoopRuns ==
    \E c \in CallerIds :
        /\ mode = "pool"
        /\ \/ callers[c].pc = "called"
           \/ callers[c].pc = "waiting" /\ attempts[callers[c].arg].made > callers[c].seen
           \/ callers[c].pc = "waiting" /\ ~attempts[callers[c].arg].open
        /\ LET r == get_or_create_runs(pool, attempts, callers[c])
           IN  /\ pool' = r.pool
               /\ attempts' = r.attempts
               /\ callers' = [callers EXCEPT ![c] = r.co]
        /\ UNCHANGED <<compositor_vars, observer_vars, store, containers, inflight,
                       finished, checked, serial, integration_vars>>

\* The connect awaited by a coroutine is over: the connection is pooled and
\* the coroutine returns it.
ConnectCompletes ==
    \E c \in CallerIds :
        /\ mode = "pool"
        /\ callers[c].pc = "connecting"
        /\ LET name == callers[c].arg
           IN  /\ pool' = pool \cup {name}
               /\ attempts' = [attempts EXCEPT ![name].open = FALSE,
                                               ![name].live = callers[c].seen]
        /\ callers' = [callers EXCEPT ![c].pc = "returned"]
        /\ UNCHANGED <<compositor_vars, observer_vars, store, containers, inflight,
                       finished, checked, serial, integration_vars>>

\* A pooled connection is evicted.
ConnectionEvicted ==
    \E name \in pool :
        /\ mode = "pool"
        /\ pool' = evict(pool, name)
        /\ attempts' = [attempts EXCEPT ![name].live = 0, ![name].gone = @ + 1]
        /\ UNCHANGED <<compositor_vars, observer_vars, store, containers, inflight,
                       finished, checked, serial, callers, integration_vars>>

PoolInit == CompositorInit /\ SystemInit /\ mode = "pool"

PoolNext == CallerRequests \/ PoolLoopRuns \/ ConnectCompletes \/ ConnectionEvicted

\* Callers asking one ConnectionPool for connections concurrently.
SpecPool == PoolInit /\ [][PoolNext]_vars

\* ------------------------------------------------- registry discovery client

\* The registry's answers: a request fails (HTTP error, timeout, a body that
\* is no JSON) or yields a JSON object, whose "servers" and "metadata" keys
\* and whose "nextCursor" may be missing, null or empty.
Cursors == {"page2_cursor", "always_more"}
Queries == {"", "test"}

RegistryEntries ==
    <<[server |-> [name |-> "github"]],
      [server |-> [name |-> "filesystem"]],
      [_meta |-> EmptyMap]>>

ServerLists == {<<>>, <<RegistryEntries[1]>>, <<RegistryEntries[2], RegistryEntries[3]>>}

Metadata ==
    {[count |-> 1]} \cup {[count |-> 1, nextCursor |-> c] : c \in {None, ""} \cup Cursors}

Pages ==
    {[servers |-> l, metadata |-> m] : l \in ServerLists, m \in Metadata}
        \cup {[metadata |-> m] : m \in Metadata}
        \cup {[servers |-> l] : l \in ServerLists}

Responses == {[raised |-> TRUE]} \cup {[raised |-> FALSE, data |-> d] : d \in Pages}

\* _parse_server, of which the name is kept: server.get("name", "") of
\* entry.get("server", {}).
_parse_server(entry) == [name |-> Get(Get(entry, "server", EmptyMap), "name", "")]

ParseAll(servers) == [k \in 1..Len(servers) |-> _parse_server(servers[k])]

\* The request parameters of one iteration (lines 57-61).
Params(query, cursor) ==
    [k \in {"limit"} \cup (IF query = "" THEN {} ELSE {"search"})
                     \cup (IF Falsy(cursor) THEN {} ELSE {"cursor"}) |->
        CASE k = "limit" -> 100
          [] k = "search" -> query
          [] k = "cursor" -> cursor]

\* `for _ in range(max_pages)`: whether there is a next iteration.
range_has_next_unbounded(i, max_pages) == TRUE

range_has_next(i, max_pages) == i < max_pages

\* One iteration of the loop of search_all (lines 57-78) on the registry's
\* answer: the request is sent; a failure is logged and leaves the loop; else
\* the parsed servers are appended and the loop goes on with the next cursor,
\* or is left when there is none.
search_all_iteration(st, response) ==
    LET sent == [st EXCEPT !.requests = Append(@, Params(st.query, st.cursor)),
                           !.i = @ + 1]
    IN IF response.raised
       THEN [sent EXCEPT !.pc = "break"]
       ELSE LET data == response.data
                servers == Get(data, "servers", <<>>)
                next_cursor == Get(Get(data, "metadata", EmptyMap), "nextCursor", None)
                got == [sent EXCEPT !.results = @ \o ParseAll(servers),
                                    !.fetched = Append(@, data)]
            IN IF Falsy(next_cursor)
               THEN [got EXCEPT !.pc = "break"]
               ELSE [got EXCEPT !.cursor = next_cursor]

\* search_all(query, max_pages) is called: lines 53-54.
SearchAll ==
    /\ paging.pc = "idle"
    /\ \E query \in Queries, max_pages \in 0..MaxPages :
          paging' = [NoSearch EXCEPT !.pc = "loop", !.query = query,
                                     !.max_pages = max_pages]
    /\ UNCHANGED <<gateway_vars, slack_vars, callback_vars>>

\* The awaited request of one iteration is answered.
RegistryResponds ==
    /\ paging.pc = "loop"
    /\ range_has_next(paging.i, paging.max_pages)
    /\ \E response \in Responses : paging' = search_all_iteration(paging, response)
    /\ UNCHANGED <<gateway_vars, slack_vars, callback_vars>>

\* `return results` (line 80), after a break or when the range is exhausted.
SearchAllReturns ==
    /\ \/ paging.pc = "break"
       \/ paging.pc = "loop" /\ ~range_has_next(paging.i, paging.max_pages)
    /\ paging' = [paging EXCEPT !.pc = "returned"]
    /\ UNCHANGED <<gateway_vars, slack_vars, callback_vars>>

RegistryInit == CompositorInit /\ SystemInit /\ mode = "registry"

RegistryNext == SearchAll \/ RegistryResponds \/ SearchAllReturns

\* One search_all call against a registry that answers as it likes.
SpecRegistry == RegistryInit /\ [][RegistryNext]_vars

\* ------------------------------------------------------- Slack webhook

_DEDUP_TTL_SECONDS == 300

\* The amounts of time that pass between two requests.
Ticks == {150, 151}

\* _is_duplicate_event at time now: the entries older than the TTL are
\* pruned; a remaining entry for the event makes it a duplicate, else the
\* event is entered with the time now.
_is_duplicate_event_refreshes(cache, event_id, now) ==
    LET kept == {k \in DOMAIN cache : ~(now - cache[k] > _DEDUP_TTL_SECONDS)}
    IN [cache |-> [k \in kept \cup {event_id} |-> IF k = event_id THEN now ELSE cache[k]],
        duplicate |-> event_id \in kept]

_is_duplicate_event(cache, event_id, now) ==
    LET kept == {k \in DOMAIN cache : ~(now - cache[k] > _DEDUP_TTL_SECONDS)}
    IN IF event_id \in kept
       THEN [cache |-> [k \in kept |-> cache[k]], duplicate |-> TRUE]
       ELSE [cache |-> [k \in kept \cup {event_id} |->
                           IF k = event_id THEN now ELSE cache[k]],
             duplicate |-> FALSE]

SlackEvents ==
    {[type |-> "app_mention"],
     [type |-> "message", channel_type |-> "im"],
     [type |-> "message", channel_type |-> "channel"],
     [type |-> "app_mention", bot_id |-> "B1"],
     [type |-> "message", channel_type |-> "im", subtype |-> "bot_message"]}

SlackData ==
    {[type |-> "event_callback", event_id |-> id, event |-> ev] :
        id \in EventIds, ev \in SlackEvents}
        \cup {[type |-> "event_callback", event_id |-> "", event |-> [type |-> "app_mention"]],
              [type |-> "event_callback", event |-> [type |-> "app_mention"]],
              [type |-> "url_verification", challenge |-> "abc"],
              [type |-> "app_rate_limited"]}

SlackRequests ==
    {[signed |-> TRUE, data |-> d] : d \in SlackData}
        \cup {[signed |-> FALSE,
               data |-> [type |-> "event_callback", event_id |-> "Ev_DEDUP",
                         event |-> [type |-> "app_mention"]]]}

SlackOutcome(cache, response, handed, duplicate) ==
    [cache |-> cache, response |-> response, handed |-> handed, duplicate |-> duplicate]

\* WebhookSlack.process at time now: the response, whether the event went to
\* _process_slack_event, and the cache after it.
process(cache, request, now) ==
    LET data == request.data
        ok == [ok |-> TRUE]
    IN IF ~request.signed
       THEN SlackOutcome(cache, [status |-> 403], FALSE, FALSE)
       ELSE IF Get(data, "type", None) = "url_verification"
       THEN SlackOutcome(cache, [challenge |-> data.challenge], FALSE, FALSE)
       ELSE IF Get(data, "type", None) = "event_callback"
       THEN LET event == Get(data, "event", EmptyMap)
                event_id == Get(data, "event_id", "")
                seen == IF event_id = ""
                        THEN [cache |-> cache, duplicate |-> FALSE]
                        ELSE _is_duplicate_event(cache, event_id, now)
                event_type == Get(event, "type", "")
            IN IF seen.duplicate
               THEN SlackOutcome(seen.cache, ok, FALSE, TRUE)
               ELSE IF \/ ~Falsy(Get(event, "bot_id", None))
                       \/ Get(event, "subtype", None) = "bot_message"
               THEN SlackOutcome(seen.cache, ok, FALSE, FALSE)
               ELSE SlackOutcome(seen.cache, ok,
                                 \/ event_type = "app_mention"
                                 \/ /\ event_type = "message"
                                    /\ Get(event, "channel_type", None) = "im",
                                 FALSE)
       ELSE SlackOutcome(cache, ok, FALSE, FALSE)

\* What the requests seen so far make of a request at time now: a signed
\* event_callback with an event id opens a window of the TTL's length for the
\* id unless it falls into the window open for it, which makes it a repeat.
IsRepeat(request, now) ==
    LET id == Get(request.data, "event_id", "")
    IN /\ id \in EventIds
       /\ slack.window[id] >= 0
       /\ now - slack.window[id] <= _DEDUP_TTL_SECONDS

Windowed(request) ==
    /\ request.signed
    /\ Get(request.data, "type", None) = "event_callback"
    /\ Get(request.data, "event_id", "") \in EventIds

SlackSeen(request, now, out) ==
    LET id == Get(request.data, "event_id", "")
    IN [window |-> IF Windowed(request) /\ ~IsRepeat(request, now)
                   THEN [slack.window EXCEPT ![id] = now]
                   ELSE slack.window,
        handed |-> IF out.handed /\ id \in EventIds
                   THEN [slack.handed EXCEPT ![id] = Append(@, now)]
                   ELSE slack.handed,
        last |-> [at |-> now, request |-> request, response |-> out.response,
                  handed |-> out.handed, duplicate |-> out.duplicate,
                  repeat |-> Windowed(request) /\ IsRepeat(request, now)]]

\* A POST to /webhook_slack is handled.
WebhookSlackProcess ==
    \E request \in SlackRequests :
        LET out == process(_event_dedup_cache, request, clock)
        IN /\ _event_dedup_cache' = out.cache
           /\ slack' = SlackSeen(request, clock, out)
           /\ UNCHANGED <<clock, gateway_vars, registry_vars, callback_vars>>

\* Time passes.
Tick ==
    /\ \E d \in Ticks : clock + d <= MaxClock /\ clock' = clock + d
    /\ UNCHANGED <<_event_dedup_cache, slack, gateway_vars, registry_vars, callback_vars>>

SlackInit == CompositorInit /\ SystemInit /\ mode = "slack"

SlackNext == WebhookSlackProcess \/ Tick

\* Slack posting events, first deliveries and retries, as time passes.
SpecSlack == SlackInit /\ [][SlackNext]_vars

\* ------------------------------------------------- integration callback

CallbackStatus == {"pending", "processing", "completed", "error", "awaiting_approval"}

\* CallbackRegistration(conversation_id, webhook_context, status).
CallbackRegistration(status) == [status |-> status, attempts |-> 0, last_error |-> None]

\* The CallbackRegistry as its callers use it.
register(R, id, reg) == [k \in DOMAIN R \cup {id} |-> IF k = id THEN reg ELSE R[k]]

\* What registry.get returns for a conversation with no registration (None).
NoRegistration == [status |-> None, attempts |-> 0, last_error |-> None]

registry_get(R, id) == IF id \in DOMAIN R THEN R[id] ELSE NoRegistration

update_status(R, id, status) ==
    IF id \in DOMAIN R THEN [R EXCEPT ![id].status = status] ELSE R

increment_attempts(R, id, error) ==
    IF id \in DOMAIN R
    THEN [R EXCEPT ![id].attempts = @ + 1, ![id].last_error = error]
    ELSE R

\* The agents: the main agent has number 0, its subordinates 1, 2, ...
AgentNumbers == {0, 1}

\* What _deliver_callback does when awaited: it returns, or raises.
Deliveries == {NoError, "Exception"}

Executed(R, calls, raised) == [registry |-> R, calls |-> calls, raised |-> raised]

\* IntegrationCallback.execute for the agent of the given number and
\* context id: the registry after it, the calls it made, what it raised.
execute_any_status(R, number, id, delivery) ==
    IF number # 0 THEN Executed(R, <<>>, NoError)
    ELSE LET reg == registry_get(R, id)
         IN IF reg = NoRegistration
            THEN Executed(R, <<>>, NoError)
            ELSE LET marked == update_status(R, id, "processing")
                 IN IF delivery = NoError
                    THEN Executed(update_status(marked, id, "completed"),
                                  <<"processing", "_deliver_callback", "completed">>,
                                  NoError)
                    ELSE Executed(update_status(increment_attempts(marked, id, delivery),
                                                id, "error"),
                                  <<"processing", "_deliver_callback", "error">>,
                                  NoError)

execute(R, number, id, delivery) ==
    IF number # 0 THEN Executed(R, <<>>, NoError)
    ELSE LET reg == registry_get(R, id)
         IN IF reg = NoRegistration \/ reg.status # "pending"
            THEN Executed(R, <<>>, NoError)
            ELSE LET marked == update_status(R, id, "processing")
                 IN IF delivery = NoError
                    THEN Executed(update_status(marked, id, "completed"),
                                  <<"processing", "_deliver_callback", "completed">>,
                                  NoError)
                    ELSE Executed(update_status(increment_attempts(marked, id, delivery),
                                                id, "error"),
                                  <<"processing", "_deliver_callback", "error">>,
                                  NoError)

\* A webhook registers a callback for a conversation, pending or awaiting
\* approval; it replaces the conversation's registration.
Register ==
    /\ \E id \in ContextIds, status \in {"pending", "awaiting_approval"} :
          /\ callback_registry' = register(callback_registry, id, CallbackRegistration(status))
          /\ callback' = [delivered |-> [callback.delivered EXCEPT ![id] = 0],
                          last |-> NoCallback.last]
    /\ UNCHANGED <<gateway_vars, registry_vars, slack_vars>>

\* An approval arrives: the registration awaiting it becomes pending.
Approve ==
    /\ \E id \in DOMAIN callback_registry :
          /\ callback_registry[id].status = "awaiting_approval"
          /\ callback_registry' = update_status(callback_registry, id, "pending")
    /\ callback' = [callback EXCEPT !.last = NoCallback.last]
    /\ UNCHANGED <<gateway_vars, registry_vars, slack_vars>>

\* The monologue of an agent ends: IntegrationCallback.execute runs.
Execute ==
    /\ \E number \in AgentNumbers, id \in ContextIds, delivery \in Deliveries :
          LET out == execute(callback_registry, number, id, delivery)
              n == Cardinality({k \in DOMAIN out.calls : out.calls[k] = "_deliver_callback"})
          IN /\ callback_registry' = out.registry
             /\ callback' =
                   [delivered |-> [callback.delivered EXCEPT ![id] = @ + n],
                    last |-> [number |-> number, id |-> id,
                              before |-> registry_get(callback_registry, id),
                              delivery |-> delivery, calls |-> out.calls,
                              raised |-> out.raised]]
    /\ UNCHANGED <<gateway_vars, registry_vars, slack_vars>>

CallbackInit == CompositorInit /\ SystemInit /\ mode = "callback"

CallbackNext == Register \/ Approve \/ Execute

\* Webhooks registering callbacks and agents ending their monologues.
SpecCallback == CallbackInit /\ [][CallbackNext]_vars

\* ------------------------------------------------------------ claims

\* The 0-based indexes at which the aggregate's list holds a proxy mounted
\* under namespace n.
ProxyIndexes(P, n) == {i \in 0..(Len(P) - 1) : P[i + 1].namespace = n}

\* A resource as the claims describe it: malformed when its transport kind is
\* unsupported, or it is http/sse without a url, or stdio without a command.
Malformed(r) ==
    \/ r.transport_type \notin {"streamable_http", "sse", "stdio"}
    \/ r.transport_type \in {"streamable_http", "sse"} /\ r.url \in {None, ""}
    \/ r.transport_type = "stdio" /\ r.command \in {None, ""}

Mountable(r) == r.is_enabled /\ ~Malformed(r)

\* C1: in every reachable state each tracked entry's recorded provider_index
\* is the index, in the aggregate's provider list, of the one proxy mounted
\* for that name.
C1_PositionIsTrueIndex ==
    \A n \in DOMAIN mounts :
        ProxyIndexes(providers, n) = {mounts[n].provider_index}

\* An unmount has just shifted the recorded position of entries that stay
\* tracked (N mounts, then the unmount of an entry that was not the last).
C1_Witness ==
    /\ last.op = "unmount_server"
    /\ last.shifted
    /\ Cardinality(DOMAIN mounts) >= 2

\* C2: mount_server of an enabled resource whose name is tracked raises
\* ValueError and changes neither the provider list nor the mount table, and
\* the aggregate holds exactly one proxy for that name.
C2_DuplicateMountRejected ==
    /\ \A r \in Resources :
          r.is_enabled /\ r.name \in DOMAIN mounts =>
              LET o == mount_server(providers, mounts, r)
              IN  /\ o.raised = "ValueError"
                  /\ o.providers = providers
                  /\ o.mounts = mounts
    /\ last.raised = "ValueError" =>
          /\ last.op = "mount_server"
          /\ Cardinality(ProxyIndexes(providers, last.name)) = 1

C2_Witness ==
    /\ last.op = "mount_server"
    /\ last.raised = "ValueError"
    /\ last.name \in DOMAIN mounts

\* C3: mount_server of a resource with is_enabled = false returns without
\* error and leaves mounted_names, the provider list and every recorded
\* position unchanged.
C3_DisabledResourceNotMounted ==
    /\ \A r \in Resources :
          ~r.is_enabled =>
              LET o == mount_server(providers, mounts, r)
              IN  /\ o.raised = NoError
                  /\ o.providers = providers
                  /\ o.mounts = mounts
    /\ last.log = "Skipping disabled resource" => last.raised = NoError

C3_Witness ==
    /\ last.op = "mount_server"
    /\ last.log = "Skipping disabled resource"
    /\ last.name \notin DOMAIN mounts
    /\ DOMAIN mounts # {}

\* C4: mount_server of an enabled, untracked, malformed resource raises
\* nothing, appends nothing and tracks nothing; and after such a skip the
\* mount of any well-formed, enabled, untracked resource succeeds.
C4_MalformedResourceSkipped ==
    /\ \A r \in Resources :
          r.is_enabled /\ r.name \notin DOMAIN mounts /\ Malformed(r) =>
              LET o == mount_server(providers, mounts, r)
              IN  /\ o.raised = NoError
                  /\ o.providers = providers
                  /\ o.mounts = mounts
    /\ trail.pat = "S" =>
          /\ last.raised = NoError
          /\ providers = trail.snap.providers
          /\ mounts = trail.snap.mounts
          /\ \A r \in Resources :
                Mountable(r) /\ r.name \notin DOMAIN mounts =>
                    LET o == mount_server(providers, mounts, r)
                    IN  /\ o.raised = NoError
                        /\ r.name \in DOMAIN o.mounts
                        /\ Len(o.providers) = Len(providers) + 1

\* A mount was skipped with a warning and the next mount succeeded.
C4_Witness ==
    /\ trail.pat = "SM"
    /\ last.log = "Mounted MCP server"
    /\ Len(providers) = Len(trail.snap.providers) + 1

\* C5: a successful mount of an untracked name n directly followed by
\* unmount_server(n) restores mounted_names, the provider list (length and
\* order) and every other entry's recorded position.
C5_MountUnmountRoundTrip ==
    trail.pat = "MU" =>
        /\ trail.name \notin DOMAIN trail.snap.mounts
        /\ DOMAIN mounts = DOMAIN trail.snap.mounts
        /\ providers = trail.snap.providers
        /\ \A n \in DOMAIN mounts :
              mounts[n].provider_index = trail.snap.mounts[n].provider_index

C5_Witness ==
    /\ trail.pat = "MU"
    /\ last.op = "unmount_server"
    /\ DOMAIN mounts # {}

\* C6: after unmount_server(n) of a mounted name n, mount_server of a
\* mountable resource named n raises nothing, and the state it yields is the
\* one the original mount yielded: n is in mounted_names and not disabled,
\* and the aggregate holds one provider more than before the first mount.
C6_RemountAfterUnmount ==
    /\ trail.pat \in {"MU", "DU"} =>
          \A r \in Resources :
              Mountable(r) /\ r.name = trail.name =>
                  LET o == mount_server(providers, mounts, r)
                  IN  /\ o.raised = NoError
                      /\ r.name \in DOMAIN o.mounts
    /\ trail.pat = "MUM" =>
          /\ last.raised = NoError
          /\ mounted_names = DOMAIN trail.snap.mounts \cup {trail.name}
          /\ ~is_disabled(trail.name)
          /\ Len(providers) = Len(trail.snap.providers) + 1
          /\ providers = Append(trail.snap.providers, MountedProvider(trail.name))
          /\ mounts[trail.name].provider_index = Len(trail.snap.providers)

C6_Witness ==
    /\ trail.pat = "MUM"
    /\ last.op = "mount_server"
    /\ trail.name \in mounted_names

\* C7: disable_server(n) directly followed by enable_server(n), n mounted,
\* leaves n in mounted_names and not disabled, and changes no other mount's
\* recorded position or disabled flag.
C7_DisableEnableRoundTrip ==
    trail.pat = "DE" =>
        /\ trail.name \in mounted_names
        /\ ~is_disabled(trail.name)
        /\ DOMAIN mounts = DOMAIN trail.snap.mounts
        /\ \A n \in DOMAIN mounts \ {trail.name} :
              /\ mounts[n].provider_index = trail.snap.mounts[n].provider_index
              /\ mounts[n].disabled = trail.snap.mounts[n].disabled

\* The round trip has run next to another mount that is itself disabled.
C7_Witness ==
    /\ trail.pat = "DE"
    /\ last.op = "enable_server"
    /\ \E n \in DOMAIN mounts \ {trail.name} : mounts[n].disabled

\* The state of a name in mount table M.
NameState(M, n) ==
    IF n \notin DOMAIN M THEN "UNMOUNTED"
    ELSE IF M[n].disabled THEN "DISABLED" ELSE "MOUNTED"

\* The call that makes each transition of the per-name state machine.
TransitionBy ==
    [from : {"UNMOUNTED"}, to : {"MOUNTED"}, op : {"mount_server"}]
    \cup [from : {"MOUNTED"}, to : {"DISABLED"}, op : {"disable_server"}]
    \cup [from : {"DISABLED"}, to : {"MOUNTED"}, op : {"enable_server"}]
    \cup [from : {"MOUNTED", "DISABLED"}, to : {"UNMOUNTED"}, op : {"unmount_server"}]

C8_Step ==
    \A n \in Names :
        NameState(mounts, n) # NameState(mounts', n) =>
            /\ last'.name = n
            /\ [from |-> NameState(mounts, n), to |-> NameState(mounts', n),
                op |-> last'.op] \in TransitionBy

C8_Reentrant ==
    \A n \in Names :
        LET u == unmount_server(providers, mounts, n)
        IN  /\ u.raised = NoError
            /\ NameState(u.mounts, n) = "UNMOUNTED"
            /\ \A r \in Resources :
                  Mountable(r) /\ r.name = n =>
                      NameState(mount_server(u.providers, u.mounts, r).mounts, n)
                          = "MOUNTED"

\* C8: every name starts UNMOUNTED and moves only along UNMOUNTED -> MOUNTED
\* (by mount), MOUNTED <-> DISABLED (by disable and enable) and
\* MOUNTED|DISABLED -> UNMOUNTED (by unmount): never UNMOUNTED -> DISABLED, a
\* mount after an unmount in DISABLED enters MOUNTED, and from every state
\* the name can be unmounted and mounted again.
C8_NameStateMachine ==
    /\ \A n \in Names : NameState(mounts, n) = "UNMOUNTED"
    /\ [][C8_Step]_vars
    /\ [](C8_Reentrant)
    /\ [](trail.pat = "DUM" => NameState(mounts, trail.name) = "MOUNTED")

\* A name was disabled, unmounted while DISABLED, and mounted again.
C8_Witness ==
    /\ trail.pat = "DUM"
    /\ last.op = "mount_server"
    /\ trail.name \in mounted_names

\* The deletions under way or just completed.
Deletions ==
    {inv \in {finished} \cup {inflight[slot] : slot \in 1..MaxInFlight} :
        inv.hook = "on_server_deleted"}

\* The positions in a call log where the attempt of a step starts / is over.
Starts(calls, step) ==
    {i \in 1..Len(calls) : calls[i] = Event(step, "call")}

Ends(calls, step) ==
    {i \in 1..Len(calls) :
        calls[i].step = step /\ calls[i].ev \in {"return", "raise"}}

\* C10: within one on_server_deleted invocation the unmount is attempted
\* first, pool eviction is attempted only after the unmount attempt is over
\* (returned or raised), and the container stop only after the eviction attempt
\* is over and only when a manager is supplied; each is attempted at most once
\* and a completed invocation has attempted all of them.
C10_DeleteStepOrder ==
    \A inv \in Deletions :
        LET calls == inv.calls
        IN  /\ calls[1] = Event("unmount_server", "call")
            /\ \A i \in Starts(calls, "evict") :
                   \E j \in Ends(calls, "unmount_server") : j < i
            /\ \A i \in Starts(calls, "stop_server") :
                   /\ inv.manager
                   /\ \E j \in Ends(calls, "evict") : j < i
            /\ \A step \in {"unmount_server", "evict", "stop_server"} :
                   Cardinality(Starts(calls, step)) <= 1
            /\ inv = finished =>
                   /\ Starts(calls, "evict") # {}
                   /\ Starts(calls, "stop_server") # {} <=> inv.manager

\* A deletion with a manager has completed although its unmount and its
\* eviction both raised: all three side effects were attempted.
C10_Witness ==
    /\ finished.hook = "on_server_deleted"
    /\ finished.manager
    /\ Event("unmount_server", "raise") \in {finished.calls[i] : i \in DOMAIN finished.calls}
    /\ Event("evict", "raise") \in {finished.calls[i] : i \in DOMAIN finished.calls}
    /\ Starts(finished.calls, "stop_server") # {}

\* C9: every name in the Compositor's mounted_names is the name of a resource
\* present in the store whose is_enabled is true: a disabled or deleted store
\* resource is never mounted.
C9_MountedAreEnabledStoreResources ==
    \A name \in mounted_names :
        /\ get(store, name) # NoResource
        /\ get(store, name).is_enabled

\* The steps of a call log whose attempt raised.
Raising(calls) == {calls[i].step : i \in {j \in DOMAIN calls : calls[j].ev = "raise"}}

\* C11: on_server_deleted isolates its steps: whichever of unmount, evict and
\* stop raise, a completed invocation has invoked unmount once, evict once and
\* stop once when a manager is supplied (never without one), every invoked
\* step was brought to an end, and the invocation itself did not raise; an
\* invocation suspended at pool.evict has not raised either.
C11_DeleteStepsIsolated ==
    /\ \A inv \in Deletions : inv.raised = NoError
    /\ finished.hook = "on_server_deleted" =>
           LET calls == finished.calls
           IN  /\ Cardinality(Starts(calls, "unmount_server")) = 1
               /\ Cardinality(Starts(calls, "evict")) = 1
               /\ Cardinality(Starts(calls, "stop_server"))
                      = IF finished.manager THEN 1 ELSE 0
               /\ \A step \in {"unmount_server", "evict", "stop_server"} :
                      Cardinality(Ends(calls, step)) = Cardinality(Starts(calls, step))
               /\ Raising(calls) \subseteq {"unmount_server", "evict", "stop_server"}

\* A deletion with a manager completed with all three of its calls raising.
C11_Witness ==
    /\ finished.hook = "on_server_deleted"
    /\ finished.manager
    /\ Raising(finished.calls) = {"unmount_server", "evict", "stop_server"}
    /\ finished.raised = NoError

\* C12: when on_server_created runs for a docker-backed resource with a
\* container manager and start_server raises, mount_server is still attempted
\* (once, after the failed start) and on_server_created does not raise.
C12_StartFailureDoesNotBlockMount ==
    finished.hook = "on_server_created" /\ finished.docker /\ finished.manager =>
        LET calls == finished.calls
        IN  /\ calls[1] = Event("start_server", "call")
            /\ Cardinality(Starts(calls, "mount_server")) = 1
            /\ \A i \in Starts(calls, "mount_server") :
                   \E j \in Ends(calls, "start_server") : j < i
            /\ Cardinality(Ends(calls, "mount_server")) = 1
            /\ finished.raised = NoError

\* start_server raised, and the mount that followed put the resource on the
\* aggregate.
C12_Witness ==
    /\ finished.hook = "on_server_created"
    /\ finished.docker /\ finished.manager
    /\ "start_server" \in Raising(finished.calls)
    /\ "mount_server" \notin Raising(finished.calls)
    /\ finished.name \in mounted_names
    /\ finished.name \notin containers

\* on_server_created run on the current state with no collaborator failing.
CreatedNow(resource, manager) ==
    RunCreated(Context(<<>>), on_server_created_steps, 1, resource, manager,
               [start_server |-> FALSE, mount_server |-> FALSE])

\* C13: on_server_created never raises, whether mount_server fails of itself
\* (the name is already mounted) or by a failing aggregate; and in every
\* reachable state, those right after such a failure included, a further
\* on_server_created for a well-formed, enabled, not yet mounted resource
\* mounts it at the end of the aggregate and leaves the other mounts alone.
C13_MountFailureAbsorbed ==
    /\ finished.hook = "on_server_created" =>
           /\ finished.raised = NoError
           /\ Cardinality(Starts(finished.calls, "mount_server")) = 1
    /\ \A resource \in LifeResources, manager \in BOOLEAN :
           Mountable(resource) /\ resource.name \notin mounted_names =>
               LET c == CreatedNow(resource, manager)
               IN  /\ c.raised = NoError
                   /\ DOMAIN c.mounts = mounted_names \cup {resource.name}
                   /\ c.mounts[resource.name].provider_index = Len(providers)
                   /\ c.providers = Append(providers, MountedProvider(resource.name))
                   /\ \A n \in mounted_names : c.mounts[n] = mounts[n]

\* on_server_created has just failed to mount a name that was mounted already
\* (the first resource of a bulk sequence, sent twice), and a later
\* well-formed resource of the sequence is still to be mounted.
C13_Witness ==
    /\ finished.hook = "on_server_created"
    /\ "mount_server" \in Raising(finished.calls)
    /\ finished.name \in mounted_names
    /\ \E resource \in LifeResources :
          /\ Mountable(resource)
          /\ resource.name \notin mounted_names
          /\ resource.name \in DOMAIN CreatedNow(resource, FALSE).mounts

\* One whole on_server_deleted run on context ctx, pool.evict awaited with
\* nothing else running meanwhile.
DeletedFrom(ctx, name, manager, faults) ==
    LET fresh == [ctx EXCEPT !.calls = <<>>, !.pc = 0]
        awaiting == RunDeleted(fresh, on_server_deleted_steps, 1, name, manager, faults)
        back == Evicted(awaiting, name, faults.evict)
    IN  IF awaiting.pc > Len(on_server_deleted_steps)
        THEN awaiting
        ELSE RunDeleted(back, on_server_deleted_steps, awaiting.pc + 1,
                        name, manager, faults)

NoDeletedFaults == [unmount_server |-> FALSE, evict |-> FALSE, stop_server |-> FALSE]

\* What a completed hook leaves behind, its call log apart.
Left(ctx) == [ctx EXCEPT !.calls = <<>>, !.pc = 0]

\* The caller may call on_server_deleted: no hook is running, and the last
\* one, if it has not returned yet, was a deletion.
MayDelete ==
    /\ \A slot \in 1..MaxInFlight : inflight[slot] = NoInvocation
    /\ finished.hook # "on_server_created"

\* C14: from every reachable state where a deletion may be called (those an
\* earlier deletion left included), an on_server_deleted(name) that follows an earlier
\* on_server_deleted(name) - complete, or failed in any of its steps - does
\* not raise, and once its own unmount goes through the Compositor state
\* (providers, tracked names, positions, disabled flags) is the one a single
\* successful deletion of name gives; a further repeat changes nothing.
C14_RepeatedDeleteIsSafe ==
    MayDelete =>
    \A name \in SysNames, manager \in BOOLEAN :
      \A once \in {DeletedFrom(Context(<<>>), name, manager, NoDeletedFaults)} :
        \A earlier \in {Left(DeletedFrom(Context(<<>>), name, manager, faults)) :
                            faults \in {f \in DeletedFaults : f.stop_server => manager}} :
          \A again \in {Left(DeletedFrom(earlier, name, manager, NoDeletedFaults))} :
            \A third \in {DeletedFrom(again, name, manager, NoDeletedFaults)} :
                /\ earlier.raised = NoError
                /\ again.raised = NoError
                /\ third.raised = NoError
                /\ again.providers = once.providers /\ again.mounts = once.mounts
                /\ third.providers = once.providers /\ third.mounts = once.mounts
                /\ DOMAIN again.mounts = mounted_names \ {name}
                /\ \A n \in DOMAIN again.mounts :
                       /\ again.mounts[n].disabled = mounts[n].disabled
                       /\ again.mounts[n].provider_index < Len(again.providers)
                       /\ again.providers[again.mounts[n].provider_index + 1]
                            = providers[mounts[n].provider_index + 1]

\* A deletion whose unmount raised has completed and left its name mounted
\* below another mount: the repeated deletion is the one that unmounts it.
C14_Witness ==
    /\ finished.hook = "on_server_deleted"
    /\ "unmount_server" \in Raising(finished.calls)
    /\ finished.name \in mounted_names
    /\ \E n \in mounted_names :
          mounts[n].provider_index > mounts[finished.name].provider_index
    /\ finished.name
          \notin DOMAIN DeletedFrom(Context(<<>>), finished.name, finished.manager,
                                    NoDeletedFaults).mounts

\* C15: run_health_check never raises: whatever pool.health_check does to the
\* pool, it returns ok=true with the pool's active count exactly when
\* pool.health_check returned, and ok=false with the exception's message
\* whenever pool.health_check raised.
C15_HealthCheckNeverRaises ==
    /\ \A after \in SUBSET pool, raises \in BOOLEAN :
           LET c == run_health_check(store, after, raises)
           IN  /\ c.raised = NoError
               /\ c.result.ok <=> ~raises
               /\ ~raises => c.result = [ok |-> TRUE, pool_active |-> Cardinality(after)]
               /\ raises => c.result = [ok |-> FALSE, error |-> "pool broken"]
               /\ "pool.health_check" \in c.calls
    /\ checked.op = "run_health_check" =>
           /\ checked.raised = NoError
           /\ checked.result.ok => checked.result.pool_active = Cardinality(pool)

\* run_health_check has returned ok=false from a pool that holds a connection.
C15_Witness ==
    /\ checked.op = "run_health_check"
    /\ ~checked.result.ok
    /\ checked.raised = NoError
    /\ pool # {}

\* The names of the docker-backed resources of a store.
DockerBacked(S) == {r.name : r \in {x \in list_all(S) : ~Falsy(x.docker_image)}}

\* C16: check_docker_servers never raises because the container backend is
\* unreachable, at manager construction or at a status query: it returns one
\* entry for every docker-backed store resource, and only for those.
C16_DockerCheckNeverFailsBatch ==
    checked.op = "check_docker_servers" =>
        /\ checked.raised = NoError
        /\ {entry.name : entry \in checked.result} = DockerBacked(store)

\* The collaborator calls that probe the pool or the container backend.
Probes == {"pool.health_check", "McpContainerManager", "manager.get_status"}

C17_NoProbeNoChange ==
    /\ \A c \in {get_status(pool, store)} :
           /\ c.calls \cap Probes = {}
           /\ c.pool = pool /\ c.store = store
           /\ c.raised = NoError
           /\ c.result = [pool_connections |-> Cardinality(pool),
                          registered_servers |-> Cardinality(DOMAIN store)]
    /\ checked.op = "get_status" =>
           /\ checked.calls \cap Probes = {}
           /\ checked.result = [pool_connections |-> Cardinality(pool),
                                registered_servers |-> Cardinality(DOMAIN store)]

C17_Frame ==
    checked'.op = "get_status" =>
        /\ pool' = pool
        /\ store' = store
        /\ containers' = containers

\* C17: get_status probes nothing and changes nothing: it calls neither
\* pool.health_check nor any container status query, leaves the pool, the
\* store and the containers as they are, and returns exactly the pool's
\* active_count and the number of stored resources.
C17_GetStatusIsCheap == [](C17_NoProbeNoChange) /\ [][C17_Frame]_vars

\* get_status has returned the counts of a pool and a store that both hold
\* something, with a container running.
C17_Witness ==
    /\ checked.op = "get_status"
    /\ checked.result.pool_connections > 0
    /\ checked.result.registered_servers > checked.result.pool_connections
    /\ containers # {}

\* The role lists a listing is asked with.
ListerRoles == CallerRoles \cup {{"sales"}, {"sales", "engineering"}}

\* C18: handle_list returns exactly the stored resources the caller may read:
\* a resource is listed iff its required_roles is empty, or the caller holds
\* one of them, or the caller is its created_by, or the caller holds the admin
\* sentinel role; and the listing leaves the store as it is.
C18_ListIsReadable ==
    \A user_id \in Users \cup {"other_user"}, roles \in ListerRoles :
        LET listed == handle_list(store, user_id, roles)
        IN  /\ listed.store = store
            /\ listed.response.ok
            /\ listed.response.data \subseteq list_all(store)
            /\ \A r \in list_all(store) :
                   r \in listed.response.data <=>
                       \/ r.required_roles = {}
                       \/ r.required_roles \cap roles # {}
                       \/ user_id = r.created_by
                       \/ "mcp.admin" \in roles

\* The store holds a resource that requires "engineering": a stranger with
\* "sales" is not shown it, one with "engineering" is, and so is an admin.
C18_Witness ==
    \E r \in list_all(store) :
        /\ r.required_roles = {"engineering"}
        /\ r \notin handle_list(store, "other_user", {"sales"}).response.data
        /\ r \in handle_list(store, "other_user", {"engineering"}).response.data
        /\ r \in handle_list(store, "other_user", {"mcp.admin"}).response.data
        /\ r \in handle_list(store, r.created_by, {}).response.data
        /\ Cardinality(DOMAIN store) > 1

\* The update bodies tried on a stored name by any caller.
WriteAttempts(name) ==
    {[action |-> "update", name |-> name, is_enabled |-> b] : b \in BOOLEAN}
    \cup {[action |-> "update", name |-> name, required_roles |-> {}],
          [action |-> "update", name |-> name, url |-> None, command |-> "sh"]}

\* C19: on a stored resource handle_update and handle_delete succeed only for
\* its created_by or an admin, whatever its required_roles (holding a required
\* role grants no write); for any other caller they return a failure and
\* leave the whole store, the targeted resource included, unchanged.
C19_WriteNeedsOwnerOrAdmin ==
    \A name \in DOMAIN store, user_id \in Users \cup {"other_user"}, roles \in ListerRoles :
        LET allowed == user_id = store[name].created_by \/ "mcp.admin" \in roles
            deleted == handle_delete(store, user_id, roles, name)
        IN  /\ deleted.response.ok <=> allowed
            /\ ~allowed => deleted.store = store
            /\ allowed => deleted.store = [n \in DOMAIN store \ {name} |-> store[n]]
            /\ \A data \in WriteAttempts(name) :
                   LET updated == handle_update(store, user_id, roles, data)
                   IN  /\ updated.response.ok <=> allowed
                       /\ ~allowed => updated.store = store
                       /\ allowed =>
                              /\ DOMAIN updated.store = DOMAIN store
                              /\ \A n \in DOMAIN store \ {name} :
                                     updated.store[n] = store[n]
                              /\ \A field \in DOMAIN data \ {"action", "name"} :
                                     updated.store[name][field] = data[field]
                              /\ updated.store[name].created_by = store[name].created_by

\* A stored resource requires "engineering", and a caller who holds that role
\* but is neither its creator nor an admin is refused both writes.
C19_Witness ==
    \E name \in DOMAIN store, user_id \in Users :
        /\ store[name].required_roles = {"engineering"}
        /\ user_id # store[name].created_by
        /\ ~handle_delete(store, user_id, {"engineering"}, name).response.ok
        /\ \A data \in WriteAttempts(name) :
               ~handle_update(store, user_id, {"engineering"}, data).response.ok
        /\ handle_delete(store, store[name].created_by, {}, name).response.ok

\* The stores one API operation of the caller can make of the current store.
StoresAfterCallBy(user_id, roles) ==
    {handle_create(store, user_id, data).store : data \in CreateRequests}
    \cup {handle_install(store, user_id, server_data).store :
             server_data \in InstallRequests}
    \cup {handle_update(store, user_id, roles, data).store : data \in UpdateRequests}
    \cup {handle_delete(store, user_id, roles, name).store : name \in SysNames}

\* C20: the access policy guards every mutating store operation: after any
\* sequence of API operations, no create, install, update or delete by a
\* caller who is neither the created_by of a stored resource nor an admin
\* changes a field of that resource (created_by included) or removes it.
C20_StrangerChangesNothing ==
    \A user_id \in Users, roles \in {{}, {"engineering"}} :
        \A S \in StoresAfterCallBy(user_id, roles) :
            \A name \in DOMAIN store :
                store[name].created_by # user_id =>
                    /\ name \in DOMAIN S
                    /\ S[name] = store[name]

\* The names asked for: those in play and one never stored.
AskedNames == SysNames \cup {"nope"}

NotFound == Failed("Resource not found")
Forbidden == Failed("Forbidden: insufficient permissions")

\* C21: update, delete and status on a name that is not in the store return
\* the not-found failure, whoever calls, and change nothing; update and
\* delete on a stored name by a caller without write access return the
\* permission failure, which differs from not-found, and change nothing: the
\* existence check comes before the permission check.
C21_NotFoundBeforeForbidden ==
    /\ NotFound # Forbidden
    /\ \A name \in AskedNames, user_id \in Users \cup {"other_user"},
          roles \in ListerRoles :
           LET deleted == handle_delete(store, user_id, roles, name)
               status == handle_status(store, name, FALSE, containers)
               allowed == name \in DOMAIN store /\
                            (user_id = store[name].created_by \/ AdminRole \in roles)
           IN  /\ name \notin DOMAIN store =>
                      /\ deleted = Handled(store, NotFound)
                      /\ status = Handled(store, NotFound)
                      /\ handle_status(store, name, TRUE, containers)
                            = Handled(store, NotFound)
               /\ name \in DOMAIN store =>
                      /\ status.response.ok /\ status.store = store
                      /\ ~allowed => deleted = Handled(store, Forbidden)
               /\ \A data \in WriteAttempts(name) :
                      LET updated == handle_update(store, user_id, roles, data)
                      IN  /\ name \notin DOMAIN store =>
                                 updated = Handled(store, NotFound)
                          /\ name \in DOMAIN store /\ ~allowed =>
                                 updated = Handled(store, Forbidden)

\* One name is stored and another is not: a stranger without roles is told
\* "forbidden" for the first and "not found" for the second.
C21_Witness ==
    \E name \in DOMAIN store, missing \in SysNames \ DOMAIN store,
       user_id \in Users :
        /\ user_id # store[name].created_by
        /\ handle_delete(store, user_id, {}, name).response = Forbidden
        /\ handle_delete(store, user_id, {}, missing).response = NotFound
        /\ handle_update(store, user_id, {},
                         [action |-> "update", name |-> missing,
                          is_enabled |-> FALSE]).response = NotFound
        /\ handle_status(store, missing, FALSE, containers).response = NotFound

\* Create requests that lack a required field: the name, the transport type,
\* or the field the transport kind needs.
LackingCreateRequests ==
    {[action |-> "create"],
     [action |-> "create", transport_type |-> "stdio", command |-> "npx"],
     [action |-> "create", name |-> ""],
     [action |-> "create", name |-> "nope"]}
    \cup {[action |-> "create", name |-> name, transport_type |-> t] :
             name \in AskedNames, t \in {"streamable_http", "sse", "stdio"}}
    \cup {[action |-> "create", name |-> name, transport_type |-> "stdio",
           url |-> Url] : name \in AskedNames}
    \cup {[action |-> "create", name |-> name, transport_type |-> t,
           command |-> "npx"] :
             name \in AskedNames, t \in {"streamable_http", "sse"}}

\* C22: a create request that lacks the name, the transport type, or the
\* field its transport kind requires (url for streamable_http and sse,
\* command for stdio) returns a structured failure and leaves the store
\* unchanged.
C22_LackingCreateIsRefused ==
    \A user_id \in Users, data \in LackingCreateRequests :
        LET created == handle_create(store, user_id, data)
        IN  /\ ~created.response.ok
            /\ created.store = store

\* The proxies on a provider list, in order, visibility left aside.
Namespaces(P) == [i \in 1..Len(P) |-> P[i].namespace]

\* C26: unmount_server of a name that is not tracked raises nothing and
\* leaves the provider list, mounted_names and every entry's position and
\* disabled flag unchanged.
C26_UnmountUntrackedIsNoOp ==
    /\ \A name \in (Names \cup {"nope"}) \ DOMAIN mounts :
          LET o == unmount_server(providers, mounts, name)
          IN  /\ o.raised = NoError
              /\ o.providers = providers
              /\ DOMAIN o.mounts = DOMAIN mounts
              /\ \A n \in DOMAIN mounts : o.mounts[n] = mounts[n]
    /\ last.op = "unmount_server" /\ last.name \notin DOMAIN mounts =>
          last.raised = NoError

\* An unmount of an untracked name has returned while other names are
\* mounted, one of them disabled.
C26_Witness ==
    /\ last.op = "unmount_server"
    /\ last.log = ""
    /\ last.raised = NoError
    /\ Cardinality(DOMAIN mounts) >= 2
    /\ \E n \in DOMAIN mounts : mounts[n].disabled

\* The outcome o of disable_server or enable_server on name changes at most
\* the disabled flag of the entry of that name and its proxy's visibility.
OnlyTogglesFlag(o, name) ==
    /\ o.raised = NoError
    /\ Namespaces(o.providers) = Namespaces(providers)
    /\ DOMAIN o.mounts = DOMAIN mounts
    /\ \A n \in DOMAIN mounts :
          /\ o.mounts[n].provider_index = mounts[n].provider_index
          /\ o.mounts[n].name = mounts[n].name
          /\ n # name => o.mounts[n].disabled = mounts[n].disabled
    /\ \A i \in 1..Len(providers) :
          (name \notin DOMAIN mounts \/ i # mounts[name].provider_index + 1)
              => o.providers[i] = providers[i]
    /\ name \notin DOMAIN mounts =>
          o.providers = providers /\ o.mounts = mounts

\* C27: disable_server and enable_server never add, remove or reorder the
\* aggregate's providers and never change mounted_names or a recorded
\* position; they change at most the named entry's disabled flag and its
\* proxy's visibility, and for an untracked name they change nothing and
\* raise nothing.
C27_ToggleKeepsListAndPositions ==
    \A name \in Names \cup {"nope"} :
        /\ OnlyTogglesFlag(disable_server(providers, mounts, name), name)
        /\ OnlyTogglesFlag(enable_server(providers, mounts, name), name)

\* A disable has just taken effect on an entry that is not the last one of
\* three mounted.
C27_Witness ==
    /\ last.op = "disable_server"
    /\ last.log = "Disabled MCP server"
    /\ Cardinality(DOMAIN mounts) = NumNames
    /\ mounts[last.name].disabled
    /\ mounts[last.name].provider_index < Len(providers) - 1

\* C29: unmount_server of a tracked name whose recorded position p is in
\* range removes exactly the provider at index p, untracks the name,
\* decrements by one the position of every other entry that was beyond p,
\* and leaves the positions in front of p and every disabled flag unchanged.
C29_UnmountRemovesAndShifts ==
    \A name \in DOMAIN mounts :
        LET p == mounts[name].provider_index
            o == unmount_server(providers, mounts, name)
        IN  p < Len(providers) =>
              /\ o.raised = NoError
              /\ Len(o.providers) = Len(providers) - 1
              /\ \A i \in 0..(Len(o.providers) - 1) :
                    o.providers[i + 1] =
                        IF i < p THEN providers[i + 1] ELSE providers[i + 2]
              /\ DOMAIN o.mounts = DOMAIN mounts \ {name}
              /\ \A n \in DOMAIN o.mounts :
                    /\ mounts[n].provider_index > p =>
                          o.mounts[n].provider_index = mounts[n].provider_index - 1
                    /\ mounts[n].provider_index < p =>
                          o.mounts[n].provider_index = mounts[n].provider_index
                    /\ o.mounts[n].disabled = mounts[n].disabled

\* One of three mounts has just been unmounted from in front of another,
\* whose position moved down; two names stay mounted, one of them disabled.
C29_Witness ==
    /\ last.op = "unmount_server"
    /\ last.log = "Unmounted MCP server"
    /\ last.shifted
    /\ Cardinality(DOMAIN mounts) = NumNames - 1
    /\ \E n \in DOMAIN mounts : mounts[n].disabled

\* C30: a successful mount_server appends exactly one provider at the end of
\* the list and records position = new length - 1 for the name; and in every
\* reachable state the provider count is the count before the first mount
\* plus the number of mounted names.
C30_MountAppendsAndCounts ==
    /\ Len(providers) = initial_count + Cardinality(mounted_names)
    /\ \A r \in Resources :
          LET o == mount_server(providers, mounts, r)
          IN  Mountable(r) /\ r.name \notin DOMAIN mounts =>
                /\ o.raised = NoError
                /\ Len(o.providers) = Len(providers) + 1
                /\ SubSeq(o.providers, 1, Len(providers)) = providers
                /\ o.providers[Len(o.providers)].namespace = r.name
                /\ DOMAIN o.mounts = DOMAIN mounts \cup {r.name}
                /\ o.mounts[r.name].provider_index = Len(o.providers) - 1
                /\ \A n \in DOMAIN mounts : o.mounts[n] = mounts[n]

\* A mount has just succeeded after an unmount made room: the new proxy is
\* the last provider and other names are mounted in front of it.
C30_Witness ==
    /\ last.op = "mount_server"
    /\ last.log = "Mounted MCP server"
    /\ trail.pat \in {"MUM", "DUM"}
    /\ Cardinality(DOMAIN mounts) >= 2
    /\ mounts[last.name].provider_index = Len(providers) - 1
    /\ initial_count > 0

\* The tracked names whose recorded position is beyond the provider list.
Stale == {n \in DOMAIN mounts : mounts[n].provider_index >= Len(providers)}

\* C24: unmount_server of a name whose recorded position is out of range is
\* a no-op: it raises nothing and changes neither the provider list nor the
\* set of tracked entries.
C24_StaleUnmountIsNoOp ==
    \A name \in Stale :
        LET o == unmount_server(providers, mounts, name)
        IN  /\ o.raised = NoError
            /\ o.providers = providers
            /\ DOMAIN o.mounts = DOMAIN mounts

\* C25: unmount_server of a name whose recorded position is out of range
\* removes no provider from the aggregate's list and changes the recorded
\* position of no other tracked entry.
C25_StaleUnmountTouchesNoNeighbour ==
    \A name \in Stale :
        LET o == unmount_server(providers, mounts, name)
        IN  /\ o.raised = NoError
            /\ o.providers = providers
            /\ DOMAIN mounts \ {name} \subseteq DOMAIN o.mounts
            /\ \A n \in DOMAIN mounts \ {name} :
                  o.mounts[n].provider_index = mounts[n].provider_index

\* An unmount has just found its position out of range while providers are
\* on the list and another name is tracked.
C25_Witness ==
    /\ last.op = "unmount_server"
    /\ last.log = "Provider index out of range"
    /\ DOMAIN mounts # {}
    /\ Len(providers) > 0

At(pc, name) == {c \in CallerIds : callers[c].pc = pc /\ callers[c].arg = name}

\* C28: get_or_create is single-flight per name: the callers that ask for a
\* name while it has no connection share one attempt (one of them connects,
\* the others await that attempt, and an attempt is made only when the first
\* is asked for or the pooled connection was evicted), every caller obtains
\* the connection made by the attempt it shared, and a caller for a name with
\* no attempt open opens one whatever is open for other names.
C28_GetOrCreateIsSingleFlight ==
    \A name \in SysNames :
        /\ Cardinality(At("connecting", name)) = IF attempts[name].open THEN 1 ELSE 0
        /\ attempts[name].made <= attempts[name].gone + 1
        /\ attempts[name].open => name \notin pool
        /\ \A c \in At("connecting", name) : callers[c].seen = attempts[name].made
        /\ \A c \in At("waiting", name) : callers[c].seen \in 1..attempts[name].made
        /\ \A c \in At("returned", name) :
              /\ callers[c].seen \in 1..attempts[name].made
              /\ name \in pool /\ attempts[name].gone = 0 =>
                    callers[c].seen = attempts[name].live
        /\ name \notin pool /\ ~attempts[name].open =>
              get_or_create_runs(pool, attempts,
                  Coroutine("get_or_create", name, "called", 0)).co.pc = "connecting"

\* Every caller has asked for the same name while it had no connection: one
\* of them is connecting and the others await its attempt, the only one made.
C28_Witness ==
    \E name \in SysNames :
        /\ Cardinality(At("connecting", name)) = 1
        /\ At("waiting", name) = CallerIds \ At("connecting", name)
        /\ attempts[name].made = 1
        /\ \A c \in CallerIds : callers[c].seen = 1

\* C31: on_server_created calls start_server only for a resource with a
\* docker_image and with a container manager supplied, and then before the
\* mount attempt; mount_server is attempted exactly once per invocation,
\* whether or not a start was attempted and whether or not it succeeded.
C31_StartOnlyDockerThenMountOnce ==
    finished.hook = "on_server_created" =>
        LET calls == finished.calls
        IN  /\ Cardinality(Starts(calls, "start_server"))
                  = IF finished.docker /\ finished.manager THEN 1 ELSE 0
            /\ \A i \in Starts(calls, "start_server"), j \in Starts(calls, "mount_server") :
                  i < j
            /\ Cardinality(Starts(calls, "mount_server")) = 1
            /\ Cardinality(Ends(calls, "mount_server")) = 1

\* A docker-backed resource was created without a container manager: no start
\* was attempted and the mount put it on the aggregate, next to another mount.
C31_Witness ==
    /\ finished.hook = "on_server_created"
    /\ finished.docker /\ ~finished.manager
    /\ Starts(finished.calls, "start_server") = {}
    /\ finished.name \in mounted_names
    /\ Cardinality(mounted_names) >= 2

\* All the ways a collaborator can fail under on_server_created.
AllCreatedFaults(resource, manager) ==
    {f \in CreatedFaults : f.start_server => ~Falsy(resource.docker_image) /\ manager}

\* on_server_created run once more on what context c left.
CreatedAgain(c, resource, manager, faults) ==
    RunCreated([c EXCEPT !.calls = <<>>, !.pc = 0], on_server_created_steps, 1,
               resource, manager, faults)

\* C38: on_server_created for a resource whose name is mounted already does
\* not raise and leaves the tracked entries, their positions and the provider
\* list unchanged, with one provider for that name, however often it is
\* invoked (from every reachable state in which no hook is about to return,
\* and once more where the first invocation changed anything at all, which
\* is then the container set).
C38_CreateOfMountedIsNoOp ==
    \A resource \in LifeResources, manager \in BOOLEAN :
        finished = NoInvocation /\ resource.name \in mounted_names =>
            \A faults \in AllCreatedFaults(resource, manager) :
                \A c \in {RunCreated(Context(<<>>), on_server_created_steps, 1,
                                     resource, manager, faults)} :
                    /\ c.raised = NoError
                    /\ c.providers = providers
                    /\ c.mounts = mounts
                    /\ Cardinality(ProxyIndexes(c.providers, resource.name)) = 1
                    /\ c.containers # containers \/ c.pool # pool =>
                          \A again \in {CreatedAgain(c, resource, manager, faults)} :
                              /\ again.raised = NoError
                              /\ again.providers = providers
                              /\ again.mounts = mounts

\* on_server_created has run for a name that was mounted already, in front of
\* another mount, and its mount attempt was refused.
C38_Witness ==
    /\ finished.hook = "on_server_created"
    /\ "mount_server" \in Raising(finished.calls)
    /\ finished.name \in mounted_names
    /\ mounts[finished.name].provider_index < Len(providers) - 1
    /\ finished.raised = NoError

\* C36: with Compositor operations alone, the recorded positions of the
\* tracked entries are pairwise distinct and each lies between the number of
\* providers present before the first mount and the current length - 1: no
\* two names share a position and none points at a pre-existing provider.
C36_PositionsDistinctAndInRange ==
    /\ \A n \in DOMAIN mounts :
          /\ mounts[n].provider_index >= initial_count
          /\ mounts[n].provider_index <= Len(providers) - 1
    /\ \A n \in DOMAIN mounts, m \in DOMAIN mounts :
          n # m => mounts[n].provider_index # mounts[m].provider_index
    /\ \A i \in 1..initial_count : providers[i] = BaseProvider

\* Three names are tracked behind a pre-existing provider, after an unmount
\* and a new mount have moved them.
C36_Witness ==
    /\ initial_count > 0
    /\ Cardinality(DOMAIN mounts) = NumNames
    /\ trail.pat \in {"MUM", "DUM"}
    /\ mounts[NameList[1]].provider_index > mounts[NameList[2]].provider_index

\* C37: the is_enabled check comes before the duplicate check: mount_server
\* of a resource with is_enabled = false whose name is tracked returns
\* without raising and changes nothing; the existing mount keeps its
\* position and its disabled flag.
C37_DisabledDuplicateIsSkipped ==
    /\ \A r \in Resources :
          ~r.is_enabled /\ r.name \in DOMAIN mounts =>
              LET o == mount_server(providers, mounts, r)
              IN  /\ o.raised = NoError
                  /\ o.log = "Skipping disabled resource"
                  /\ o.providers = providers
                  /\ DOMAIN o.mounts = DOMAIN mounts
                  /\ o.mounts[r.name] = mounts[r.name]
                  /\ o.mounts = mounts
    /\ last.log = "Skipping disabled resource" => last.raised = NoError

\* A disabled resource has just been handed to mount_server under the name
\* of a mount that is itself disabled.
C37_Witness ==
    /\ last.op = "mount_server"
    /\ last.log = "Skipping disabled resource"
    /\ last.name \in DOMAIN mounts
    /\ mounts[last.name].disabled

\* C32: with the container backend reachable, check_docker_servers returns
\* exactly one entry per store resource that has a docker image, with that
\* resource's name and its running state, and none for a resource without a
\* docker image; with no docker-backed resource it returns the empty list
\* and does not contact the backend.
C32_DockerCheckReportsDockerBacked ==
    /\ \A c \in {check_docker_servers(pool, store, containers, TRUE, {})} :
          /\ c.raised = NoError
          /\ {entry.name : entry \in c.result} = DockerBacked(store)
          /\ Cardinality(c.result) = Cardinality(DockerBacked(store))
          /\ \A entry \in c.result : entry.running <=> entry.name \in containers
          /\ DockerBacked(store) = {} =>
                c.result = {} /\ c.calls \cap Probes = {}
    /\ \A reachable \in BOOLEAN, failing \in SUBSET SysNames :
          DockerBacked(store) = {} =>
              \A c \in {check_docker_servers(pool, store, containers, reachable, failing)} :
                  c.result = {} /\ c.raised = NoError /\ c.calls \cap Probes = {}

\* check_docker_servers has just reported a running container for the one
\* docker-backed resource of a store that also holds one without an image.
C32_Witness ==
    /\ checked.op = "check_docker_servers"
    /\ checked.raised = NoError
    /\ \E name \in DOMAIN store : Falsy(store[name].docker_image)
    /\ Cardinality(checked.result) = 1
    /\ \A entry \in checked.result : entry.running /\ entry.name \in containers
    /\ "manager.get_status" \in checked.calls

\* C39: when an on_server_deleted and an on_server_created for one name
\* overlap and both have completed, the name is not mounted with its
\* container stopped by that delete.
C39_DeleteSparesLaterMount ==
    /\ finished.hook = "on_server_deleted"
    /\ Event("stop_server", "return") \in
          {finished.calls[i] : i \in DOMAIN finished.calls}
    => ~(finished.name \in mounted_names /\ finished.name \notin containers)

\* The nextCursor a fetched page reports, None when it reports none.
NextCursorOf(data) == Get(Get(data, "metadata", EmptyMap), "nextCursor", None)

\* The parsed servers of the pages, page after page.
RECURSIVE ServersOf(_)
ServersOf(pages) ==
    IF pages = <<>> THEN <<>>
    ELSE ServersOf(SubSeq(pages, 1, Len(pages) - 1))
            \o ParseAll(Get(pages[Len(pages)], "servers", <<>>))

C33_Bounded ==
    LET n == Len(paging.fetched)
    IN /\ Len(paging.requests) <= paging.max_pages
       /\ paging.results = ServersOf(paging.fetched)
       /\ \A k \in 1..n :
             Falsy(NextCursorOf(paging.fetched[k]))
                 => k = n /\ Len(paging.requests) = n /\ paging.pc # "loop"
       /\ \A k \in 1..Len(paging.requests) :
             IF k = 1 THEN "cursor" \notin DOMAIN paging.requests[k]
             ELSE /\ k - 1 <= n
                  /\ "cursor" \in DOMAIN paging.requests[k]
                  /\ paging.requests[k].cursor = NextCursorOf(paging.fetched[k - 1])

C33_Progress ==
    /\ paging.pc = "loop"
          => \/ paging'.pc \in {"break", "returned"}
             \/ /\ paging'.pc = "loop"
                /\ paging'.max_pages - Len(paging'.requests)
                       < paging.max_pages - Len(paging.requests)
    /\ paging.pc = "break" => paging'.pc = "returned"
    /\ paging.pc = "returned" => paging' = paging

\* C33: search_all issues at most max_pages requests and every step of it
\* brings it nearer to its return, whatever the registry answers; no request
\* follows the first page without a nextCursor; each request carries the
\* cursor of the page before it, and the result is the concatenation, in page
\* order, of the parsed servers of the pages fetched.
C33_SearchAllIsBounded == []C33_Bounded /\ [][C33_Progress]_vars

\* search_all has returned after max_pages requests, each answered by a
\* page with servers and a further nextCursor.
C33_Witness ==
    /\ paging.pc = "returned"
    /\ paging.max_pages = MaxPages
    /\ Len(paging.fetched) = MaxPages
    /\ \A k \in 1..MaxPages :
          /\ ~Falsy(NextCursorOf(paging.fetched[k]))
          /\ Get(paging.fetched[k], "servers", <<>>) # <<>>

\* C34: an event id is handed to _process_slack_event at most once per
\* window of 300 seconds from its first receipt; a repeat within the window
\* is answered {ok: true} and not handed on, and the cache keeps the time of
\* the first receipt, so that the repeat does not extend the window.
C34_AtMostOncePerWindow ==
    /\ \A id \in EventIds :
          /\ \A i, j \in DOMAIN slack.handed[id] :
                i < j => slack.handed[id][j] - slack.handed[id][i] > _DEDUP_TTL_SECONDS
          /\ id \in DOMAIN _event_dedup_cache
                => _event_dedup_cache[id] = slack.window[id]
    /\ slack.last.at >= 0 /\ Windowed(slack.last.request)
          => /\ slack.last.duplicate = slack.last.repeat
             /\ slack.last.repeat
                   => slack.last.response = [ok |-> TRUE] /\ ~slack.last.handed

\* An event was handed on, repeated within its window, handed on again after
\* the window, and is repeated within the second window.
C34_Witness ==
    /\ Len(slack.handed["Ev_DEDUP"]) = 2
    /\ slack.handed["Ev_DEDUP"][2] - slack.handed["Ev_DEDUP"][1]
          < 2 * _DEDUP_TTL_SECONDS
    /\ slack.last.at > slack.handed["Ev_DEDUP"][2]
    /\ Get(slack.last.request.data, "event_id", "") = "Ev_DEDUP"
    /\ slack.last.repeat
    /\ slack.last.duplicate

\* C35: execute delivers only for agent number 0 and a registration that is
\* pending; it then marks the registration processing, delivers, and marks it
\* completed, or error when the delivery fails; it raises nothing, leaves no
\* registration processing, and no registration is delivered twice.
C35_DeliversPendingOnce ==
    /\ \A id \in ContextIds : callback.delivered[id] <= 1
    /\ \A id \in DOMAIN callback_registry :
          callback_registry[id].status # "processing"
    /\ callback.last.number >= 0
          => LET l == callback.last
                 fires == /\ l.number = 0
                          /\ l.before # NoRegistration
                          /\ l.before.status = "pending"
             IN /\ l.raised = NoError
                /\ fires /\ l.delivery = NoError
                      => /\ l.calls = <<"processing", "_deliver_callback", "completed">>
                         /\ callback_registry[l.id].status = "completed"
                /\ fires /\ l.delivery # NoError
                      => /\ l.calls = <<"processing", "_deliver_callback", "error">>
                         /\ callback_registry[l.id].status = "error"
                /\ ~fires
                      => /\ l.calls = <<>>
                         /\ registry_get(callback_registry, l.id) = l.before

\* execute has run for the main agent on a registration that an earlier
\* execute had delivered, and has left it as it was.
C35_Witness ==
    /\ callback.last.number = 0
    /\ callback.last.before # NoRegistration
    /\ callback.last.before.status \in {"completed", "error"}
    /\ callback.delivered[callback.last.id] = 1
    /\ callback.last.calls = <<>>

====
